---- MODULE Spec2Model ----
(***************************************************************************)
(* The conversion webhook of conversion-webhook-repro: HandleConvert       *)
(* (pkg/webhook/handler.go), convertV1ToV2 / convertV2ToV1                 *)
(* (pkg/webhook/conversion.go) and the ExampleV1 / ExampleV2 types.        *)
(*                                                                         *)
(* JSON is modelled by value and by text.  A JSON value is a tagged        *)
(* record: [str |-> s], [num |-> digits], [null |-> TRUE], [obj |-> f]     *)
(* with f a function from keys to values, [arr |-> seq].  A JSON text is   *)
(* [style, val]: val is the value the bytes denote and style says how the  *)
(* bytes are written: "compact" is the form encoding/json itself writes    *)
(* (no insignificant whitespace, <, > and & escaped), "loose" is any other *)
(* spelling of the same value.  Two texts are the same bytes exactly when  *)
(* the records are equal.  Go's nil is Nil.                                *)
(***************************************************************************)
EXTENDS Integers, Sequences, FiniteSets, TLC

VARIABLES
    pc,                \* where the handler invocation is
    request,           \* the *http.Request: [readErr, body]
    body,              \* handler.go:15   body
    review,            \* handler.go:21   review
    req,               \* handler.go:27   req
    convertedObjects,  \* handler.go:28   convertedObjects
    i,                 \* handler.go:30   position of the range loop
    obj,               \* handler.go:30   obj of the latest iteration
    objMeta,           \* handler.go:34   objMeta of the latest iteration
    parsed,            \* handler.go:42,50  v1Obj / v2Obj of the latest iteration
    converted,         \* handler.go:31   converted of the latest iteration
    outcome,           \* which branch the latest iteration left through
    srv,               \* main.go: the server process, Nil where it is not modelled
    inv,               \* concurrent HandleConvert invocations, Nil where there is one
    sh,                \* a run of a shell script, Nil where none is modelled
    mem,               \* Go values on the heap, Nil where none are modelled
    w                  \* the http.ResponseWriter: what the caller was sent

vars == <<pc, request, body, review, req, convertedObjects, i, obj, objMeta,
          parsed, converted, outcome, srv, inv, sh, mem, w>>

\* The number of ExampleV1 / ExampleV2 values on the heap.
MaxStructs == 3

\* The number of times a script is run on the same environment.
MaxRuns == 2

\* The number of HandleConvert invocations the server runs at once.
MaxInvocations == 2

\* The longest request.objects list a modelled request carries.
MaxObjects == 3

Nil == [nil |-> TRUE]

---------------------------------------------------------------------------
\* JSON values and texts.

JStr(s) == [str |-> s]
JNum(d) == [num |-> d]
JNull == [null |-> TRUE]
JObj(f) == [obj |-> f]
JArr(s) == [arr |-> s]

IsStr(v) == DOMAIN v = {"str"}
IsNum(v) == DOMAIN v = {"num"}
IsNull(v) == DOMAIN v = {"null"}
IsObj(v) == DOMAIN v = {"obj"}
IsArr(v) == DOMAIN v = {"arr"}

\* The function with no keys: an empty JSON object, an empty Go map.
Empty == [k \in {} |-> JNull]

\* The key k with value v when c holds, and nothing otherwise (omitempty).
Opt(c, k, v) == IF c THEN k :> v ELSE Empty

Text(style, val) == [style |-> style, val |-> val]
CompactText(val) == Text("compact", val)
LooseText(val) == Text("loose", val)

\* Absent and null members leave the Go field at its zero value.
Missing(o, k) == k \notin DOMAIN o \/ IsNull(o[k])

V1 == "conversion.example.com/v1"
V2 == "conversion.example.com/v2"
DefaultField2 == "default-v2-value"

---------------------------------------------------------------------------
\* The Go types of the package and encoding/json's decoding into them.
\* A decode result is [err, v]: err is TRUE when json.Unmarshal returns an
\* error, v is the value the target then holds.

Ok(v) == [err |-> FALSE, v |-> v]
Err(v) == [err |-> TRUE, v |-> v]

ZeroTypeMeta == [Kind |-> "", APIVersion |-> ""]
ZeroObjectMeta ==
    [Name |-> "", Namespace |-> "", Labels |-> Empty, CreationTimestamp |-> ""]

\* A Go string field: absent or null leaves "", a JSON string sets it, any
\* other JSON value is an UnmarshalTypeError.
DecodeString(o, k) ==
    IF Missing(o, k) THEN Ok("")
    ELSE IF IsStr(o[k]) THEN Ok(o[k].str)
    ELSE Err("")

\* float64(d) written back by strconv: integers beyond 2^53 are rounded and
\* a fractional spelling of an integer loses its fraction.
Float64Text(d) ==
    CASE d = "9007199254740993" -> "9007199254740992"
      [] d = "1.0" -> "1"
      [] OTHER -> d

\* Decoding into interface{}: numbers become float64, objects become
\* map[string]interface{}, null becomes nil.  Cannot fail.
RECURSIVE DecodeAny(_)
DecodeAny(v) ==
    CASE IsNum(v) -> JNum(Float64Text(v.num))
      [] IsObj(v) -> JObj([k \in DOMAIN v.obj |-> DecodeAny(v.obj[k])])
      [] IsArr(v) -> JArr([n \in DOMAIN v.arr |-> DecodeAny(v.arr[n])])
      [] OTHER -> v

\* map[string]string (ObjectMeta.Labels).
DecodeLabels(o) ==
    IF Missing(o, "labels") THEN Ok(Empty)
    ELSE IF ~IsObj(o["labels"]) THEN Err(Empty)
    ELSE LET m == o["labels"].obj
         IN  IF \A k \in DOMAIN m : IsStr(m[k]) \/ IsNull(m[k])
             THEN Ok([k \in DOMAIN m |-> IF IsStr(m[k]) THEN m[k].str ELSE ""])
             ELSE Err(Empty)

\* metav1.TypeMeta: `json:"kind,omitempty"`, `json:"apiVersion,omitempty"`.
DecodeTypeMeta(o) ==
    LET k == DecodeString(o, "kind")
        a == DecodeString(o, "apiVersion")
    IN  [err |-> k.err \/ a.err, v |-> [Kind |-> k.v, APIVersion |-> a.v]]

\* metav1.ObjectMeta under the key "metadata"; keys it does not declare are
\* ignored.
DecodeObjectMeta(o) ==
    IF Missing(o, "metadata") THEN Ok(ZeroObjectMeta)
    ELSE IF ~IsObj(o["metadata"]) THEN Err(ZeroObjectMeta)
    ELSE LET m == o["metadata"].obj
             name == DecodeString(m, "name")
             ns == DecodeString(m, "namespace")
             ct == DecodeString(m, "creationTimestamp")
             labels == DecodeLabels(m)
         IN  [err |-> name.err \/ ns.err \/ ct.err \/ labels.err,
              v |-> [Name |-> name.v, Namespace |-> ns.v, Labels |-> labels.v,
                     CreationTimestamp |-> ct.v]]

\* ExampleV1Spec: Field1 string `json:"field1,omitempty"`.
DecodeV1Spec(o) ==
    IF Missing(o, "spec") THEN Ok([Field1 |-> ""])
    ELSE IF ~IsObj(o["spec"]) THEN Err([Field1 |-> ""])
    ELSE LET f1 == DecodeString(o["spec"].obj, "field1")
         IN  [err |-> f1.err, v |-> [Field1 |-> f1.v]]

\* ExampleV2Spec: Field1 and Field2 string, both omitempty.
DecodeV2Spec(o) ==
    IF Missing(o, "spec") THEN Ok([Field1 |-> "", Field2 |-> ""])
    ELSE IF ~IsObj(o["spec"]) THEN Err([Field1 |-> "", Field2 |-> ""])
    ELSE LET f1 == DecodeString(o["spec"].obj, "field1")
             f2 == DecodeString(o["spec"].obj, "field2")
         IN  [err |-> f1.err \/ f2.err, v |-> [Field1 |-> f1.v, Field2 |-> f2.v]]

\* Status interface{} `json:"status,omitempty"`.
DecodeStatus(o) == IF Missing(o, "status") THEN JNull ELSE DecodeAny(o["status"])

\* json.Unmarshal(raw, &objMeta) with objMeta a metav1.TypeMeta.
UnmarshalTypeMeta(raw) ==
    IF raw = Nil THEN Err(ZeroTypeMeta)
    ELSE IF IsNull(raw.val) THEN Ok(ZeroTypeMeta)
    ELSE IF ~IsObj(raw.val) THEN Err(ZeroTypeMeta)
    ELSE DecodeTypeMeta(raw.val.obj)

ZeroExampleV1 ==
    [TypeMeta |-> ZeroTypeMeta, ObjectMeta |-> ZeroObjectMeta,
     Spec |-> [Field1 |-> ""], Status |-> JNull]
ZeroExampleV2 ==
    [TypeMeta |-> ZeroTypeMeta, ObjectMeta |-> ZeroObjectMeta,
     Spec |-> [Field1 |-> "", Field2 |-> ""], Status |-> JNull]

\* json.Unmarshal(raw, &v1Obj) with v1Obj an ExampleV1.
UnmarshalExampleV1(raw) ==
    IF raw = Nil THEN Err(ZeroExampleV1)
    ELSE IF IsNull(raw.val) THEN Ok(ZeroExampleV1)
    ELSE IF ~IsObj(raw.val) THEN Err(ZeroExampleV1)
    ELSE LET o == raw.val.obj
             tm == DecodeTypeMeta(o)
             om == DecodeObjectMeta(o)
             sp == DecodeV1Spec(o)
         IN  [err |-> tm.err \/ om.err \/ sp.err,
              v |-> [TypeMeta |-> tm.v, ObjectMeta |-> om.v, Spec |-> sp.v,
                     Status |-> DecodeStatus(o)]]

\* json.Unmarshal(raw, &v2Obj) with v2Obj an ExampleV2.
UnmarshalExampleV2(raw) ==
    IF raw = Nil THEN Err(ZeroExampleV2)
    ELSE IF IsNull(raw.val) THEN Ok(ZeroExampleV2)
    ELSE IF ~IsObj(raw.val) THEN Err(ZeroExampleV2)
    ELSE LET o == raw.val.obj
             tm == DecodeTypeMeta(o)
             om == DecodeObjectMeta(o)
             sp == DecodeV2Spec(o)
         IN  [err |-> tm.err \/ om.err \/ sp.err,
              v |-> [TypeMeta |-> tm.v, ObjectMeta |-> om.v, Spec |-> sp.v,
                     Status |-> DecodeStatus(o)]]

---------------------------------------------------------------------------
\* encoding/json's encoding of the Go types.

\* metav1.ObjectMeta: string fields and labels are omitempty; the zero
\* CreationTimestamp is a struct, which omitempty never omits, and
\* metav1.Time writes it as null.
MarshalObjectMeta(m) ==
    JObj(Opt(m.Name # "", "name", JStr(m.Name))
         @@ Opt(m.Namespace # "", "namespace", JStr(m.Namespace))
         @@ ("creationTimestamp" :>
                IF m.CreationTimestamp = "" THEN JNull
                ELSE JStr(m.CreationTimestamp))
         @@ Opt(DOMAIN m.Labels # {}, "labels",
                JObj([k \in DOMAIN m.Labels |-> JStr(m.Labels[k])])))

MarshalTypeMeta(t) ==
    Opt(t.Kind # "", "kind", JStr(t.Kind))
    @@ Opt(t.APIVersion # "", "apiVersion", JStr(t.APIVersion))

\* json.Marshal of an *ExampleV1: metadata and spec are structs and always
\* written; status is omitted when nil.
MarshalExampleV1(e) ==
    CompactText(JObj(
        MarshalTypeMeta(e.TypeMeta)
        @@ ("metadata" :> MarshalObjectMeta(e.ObjectMeta))
        @@ ("spec" :> JObj(Opt(e.Spec.Field1 # "", "field1", JStr(e.Spec.Field1))))
        @@ Opt(e.Status # JNull, "status", e.Status)))

\* json.Marshal of an *ExampleV2.
MarshalExampleV2(e) ==
    CompactText(JObj(
        MarshalTypeMeta(e.TypeMeta)
        @@ ("metadata" :> MarshalObjectMeta(e.ObjectMeta))
        @@ ("spec" :> JObj(Opt(e.Spec.Field1 # "", "field1", JStr(e.Spec.Field1))
                           @@ Opt(e.Spec.Field2 # "", "field2", JStr(e.Spec.Field2))))
        @@ Opt(e.Status # JNull, "status", e.Status)))

\* json.Marshal(converted): converted is a runtime.Object holding either a
\* *ExampleV1 or a *ExampleV2; the spec record tells which.
MarshalConverted(e) ==
    IF "Field2" \in DOMAIN e.Spec THEN MarshalExampleV2(e) ELSE MarshalExampleV1(e)

---------------------------------------------------------------------------
\* The conversions.

\* convertV1ToV2 without the default for the new field.
convertV1ToV2_NoDefault(v1Obj) ==
    [TypeMeta |-> [Kind |-> "Example", APIVersion |-> V2],
     ObjectMeta |-> v1Obj.ObjectMeta,
     Spec |-> [Field1 |-> v1Obj.Spec.Field1, Field2 |-> ""],
     Status |-> v1Obj.Status]

convertV1ToV2(v1Obj) ==
    [TypeMeta |-> [Kind |-> "Example", APIVersion |-> V2],
     ObjectMeta |-> v1Obj.ObjectMeta,
     Spec |-> [Field1 |-> v1Obj.Spec.Field1, Field2 |-> DefaultField2],
     Status |-> v1Obj.Status]

\* convertV2ToV1 carrying the v2 spec over whole.
convertV2ToV1_KeepsSpec(v2Obj) ==
    [TypeMeta |-> [Kind |-> "Example", APIVersion |-> V1],
     ObjectMeta |-> v2Obj.ObjectMeta,
     Spec |-> v2Obj.Spec,
     Status |-> v2Obj.Status]

\* convertV2ToV1 keeping the type metadata of its argument.
convertV2ToV1_KeepsTypeMeta(v2Obj) ==
    [TypeMeta |-> v2Obj.TypeMeta,
     ObjectMeta |-> v2Obj.ObjectMeta,
     Spec |-> [Field1 |-> v2Obj.Spec.Field1],
     Status |-> v2Obj.Status]

\* convertV2ToV1 without the ObjectMeta line.
convertV2ToV1_NoObjectMeta(v2Obj) ==
    [TypeMeta |-> [Kind |-> "Example", APIVersion |-> V1],
     ObjectMeta |-> ZeroObjectMeta,
     Spec |-> [Field1 |-> v2Obj.Spec.Field1],
     Status |-> v2Obj.Status]

convertV2ToV1(v2Obj) ==
    [TypeMeta |-> [Kind |-> "Example", APIVersion |-> V1],
     ObjectMeta |-> v2Obj.ObjectMeta,
     Spec |-> [Field1 |-> v2Obj.Spec.Field1],
     Status |-> v2Obj.Status]

---------------------------------------------------------------------------
\* The ConversionReview envelope (k8s.io/apiextensions-apiserver) as
\* encoding/json reads and writes it.

\* runtime.RawExtension.UnmarshalJSON: the element's bytes are kept as they
\* were written, except that a null element leaves Raw nil.
UnmarshalRawExtension(t) == [Raw |-> IF IsNull(t.val) THEN Nil ELSE t]

\* request.objects: []runtime.RawExtension.
DecodeObjects(o) ==
    IF Missing(o, "objects") THEN Ok(<<>>)
    ELSE IF ~IsArr(o["objects"]) THEN Err(<<>>)
    ELSE LET a == o["objects"].arr
         IN  Ok([n \in DOMAIN a |-> UnmarshalRawExtension(a[n])])

\* request: *ConversionRequest, nil when the member is absent or null.
DecodeRequest(o) ==
    IF Missing(o, "request") THEN Ok(Nil)
    ELSE IF ~IsObj(o["request"]) THEN Err(Nil)
    ELSE LET r == o["request"].obj
             uid == DecodeString(r, "uid")
             want == DecodeString(r, "desiredAPIVersion")
             objs == DecodeObjects(r)
         IN  [err |-> uid.err \/ want.err \/ objs.err,
              v |-> [UID |-> uid.v, DesiredAPIVersion |-> want.v,
                     Objects |-> objs.v]]

ZeroReview == [TypeMeta |-> ZeroTypeMeta, Request |-> Nil, Response |-> Nil]

\* A body that is not JSON at all (truncated, garbage).
InvalidJSON == [invalid |-> TRUE]

\* json.Unmarshal(body, &review).
UnmarshalReview(b) ==
    IF b = InvalidJSON THEN Err(ZeroReview)
    ELSE IF IsNull(b.val) THEN Ok(ZeroReview)
    ELSE IF ~IsObj(b.val) THEN Err(ZeroReview)
    ELSE LET tm == DecodeTypeMeta(b.val.obj)
             rq == DecodeRequest(b.val.obj)
         IN  [err |-> tm.err \/ rq.err,
              v |-> [TypeMeta |-> tm.v, Request |-> rq.v, Response |-> Nil]]

\* encoding/json's appendCompact(b, escapeHTML = true), which the encoder
\* applies to the bytes every MarshalJSON method returns.
Compact(t) == CompactText(t.val)

\* runtime.RawExtension.MarshalJSON followed by the encoder's compaction.
MarshalRawExtension(re) ==
    IF re.Raw = Nil THEN CompactText(JNull) ELSE Compact(re.Raw)

\* metav1.Status with only Status set: ListMeta is a struct and is written.
MarshalStatus(st) ==
    JObj(("metadata" :> JObj(Empty)) @@ Opt(st.Status # "", "status", JStr(st.Status)))

\* ConversionResponse: uid, convertedObjects and result carry no omitempty.
MarshalResponse(r) ==
    JObj([uid |-> JStr(r.UID),
          convertedObjects |->
              JArr([n \in DOMAIN r.ConvertedObjects |->
                        MarshalRawExtension(r.ConvertedObjects[n])]),
          result |-> MarshalStatus(r.Result)])

\* ConversionRequest: uid, desiredAPIVersion and objects.
MarshalRequest(r) ==
    JObj([uid |-> JStr(r.UID),
          desiredAPIVersion |-> JStr(r.DesiredAPIVersion),
          objects |-> JArr([n \in DOMAIN r.Objects |->
                                MarshalRawExtension(r.Objects[n])])])

\* json.Marshal(review): request and response are omitempty pointers.
MarshalReview(rv) ==
    CompactText(JObj(
        MarshalTypeMeta(rv.TypeMeta)
        @@ (IF rv.Request = Nil THEN Empty
            ELSE "request" :> MarshalRequest(rv.Request))
        @@ (IF rv.Response = Nil THEN Empty
            ELSE "response" :> MarshalResponse(rv.Response))))

---------------------------------------------------------------------------
\* The requests the model sends.

\* The elements a request.objects list is drawn from, as JSON texts.
ObjV1 ==
    CompactText(JObj([apiVersion |-> JStr(V1), kind |-> JStr("Example"),
                      metadata |-> JObj([name |-> JStr("x")]),
                      spec |-> JObj([field1 |-> JStr("hello")])]))
ObjV1Rich ==
    LooseText(JObj([apiVersion |-> JStr(V1), kind |-> JStr("Other"),
                    metadata |-> JObj([name |-> JStr("y"), namespace |-> JStr("ns"),
                                       creationTimestamp |-> JStr("2024-01-01T00:00:00Z"),
                                       labels |-> JObj([app |-> JStr("demo")]),
                                       finalizer |-> JStr("keep")]),
                    spec |-> JObj([field1 |-> JStr(""), field2 |-> JStr("mine")]),
                    extra |-> JStr("unknown"),
                    status |-> JObj([observed |-> JNum("9007199254740993")])]))
ObjV2 ==
    CompactText(JObj([apiVersion |-> JStr(V2), kind |-> JStr("Example"),
                      metadata |-> JObj([name |-> JStr("x")]),
                      spec |-> JObj([field1 |-> JStr("hello"),
                                     field2 |-> JStr("custom")])]))
ObjV2Rich ==
    LooseText(JObj([apiVersion |-> JStr(V2), kind |-> JStr("Other"),
                    metadata |-> JObj([name |-> JStr("z"),
                                       labels |-> JObj([app |-> JStr("demo")])]),
                    spec |-> JObj([field1 |-> JStr("a<b"),
                                   field2 |-> JStr(DefaultField2)]),
                    status |-> JStr("Ready")]))
\* A version the webhook does not know.
ObjOther ==
    LooseText(JObj([apiVersion |-> JStr("apps/v1"), kind |-> JStr("Deployment"),
                    metadata |-> JObj([name |-> JStr("d")])]))
\* No apiVersion member at all.
ObjNoVersion == CompactText(JObj([kind |-> JStr("Example")]))
\* Elements the type-metadata pre-parse rejects.
ObjNull == CompactText(JNull)
ObjScalar == CompactText(JStr("not an object"))
ObjBadVersion == CompactText(JObj([apiVersion |-> JNum("1"), kind |-> JStr("Example")]))
\* Elements whose type metadata parses but whose body fits neither schema.
ObjV1BadSpec ==
    CompactText(JObj([apiVersion |-> JStr(V1), kind |-> JStr("Example"),
                      spec |-> JStr("oops")]))
ObjV2BadSpec ==
    CompactText(JObj([apiVersion |-> JStr(V2), kind |-> JStr("Example"),
                      metadata |-> JObj([name |-> JStr("x")]),
                      spec |-> JObj([field1 |-> JNum("1")])]))

ObjectTexts ==
    {ObjV1, ObjV1Rich, ObjV2, ObjV2Rich, ObjOther, ObjNoVersion, ObjNull,
     ObjScalar, ObjBadVersion, ObjV1BadSpec, ObjV2BadSpec}

UIDs == {"", "abc"}
DesiredAPIVersions == {V1, V2, "conversion.example.com/v3"}

ObjectLists == UNION {[1..n -> ObjectTexts] : n \in 0..MaxObjects}

ReviewBody(uid, want, objs) ==
    CompactText(JObj([apiVersion |-> JStr("apiextensions.k8s.io/v1"),
                      kind |-> JStr("ConversionReview"),
                      request |-> JObj([uid |-> JStr(uid),
                                        desiredAPIVersion |-> JStr(want),
                                        objects |-> JArr(objs)])]))

\* Bodies that are JSON but carry no usable request, or the wrong shape.
OddBodies ==
    {InvalidJSON,
     CompactText(JNull),
     CompactText(JObj(Empty)),
     CompactText(JObj([request |-> JNull])),
     CompactText(JObj([request |-> JObj(Empty)])),
     CompactText(JObj([request |-> JStr("x")])),
     CompactText(JObj([request |-> JObj([uid |-> JStr("abc"),
                                         objects |-> JStr("x")])])),
     CompactText(JArr(<<>>))}

\* The uid takes no part in the loop: every list is sent under the uid
\* "abc", and the lists of at most one element under every uid.
Bodies ==
    OddBodies
    \cup {ReviewBody("abc", want, objs) :
            want \in DesiredAPIVersions, objs \in ObjectLists}
    \cup {ReviewBody(uid, want, objs) :
            uid \in UIDs, want \in DesiredAPIVersions,
            objs \in {l \in ObjectLists : Len(l) <= 1}}

\* An *http.Request to /convert: reading the body fails (the connection
\* breaks) or yields the body.
Requests ==
    {[readErr |-> TRUE, body |-> InvalidJSON]}
    \cup {[readErr |-> FALSE, body |-> b] : b \in Bodies}

---------------------------------------------------------------------------
\* HandleConvert.

\* A ResponseWriter nothing has been written to.
NoResponse == [code |-> 0, contentType |-> "", body |-> Nil, writes |-> 0]

\* http.Error(w, text, code): a plain-text body holding the error text.
HttpError(rw, text, code) ==
    [code |-> code, contentType |-> "text/plain; charset=utf-8",
     body |-> [error |-> text], writes |-> rw.writes + 1]

\* w.Header().Set("Content-Type", "application/json"); w.Write(respBytes):
\* the first Write sends the implicit 200.
WriteJSON(rw, bytes) ==
    [code |-> 200, contentType |-> "application/json", body |-> bytes,
     writes |-> rw.writes + 1]

\* The two cases of the switch.
IsV1ToV2(meta, want) == meta.APIVersion = V1 /\ want = V2
IsV2ToV1(meta, want) == meta.APIVersion = V2 /\ want = V1

\* The entry put in front of the list instead of behind it.
AppendObject_InFront(list, e) == <<e>> \o list

\* convertedObjects = append(convertedObjects, e)
AppendObject(list, e) == Append(list, e)

\* The members of the object at key k of o, none when there is no object.
ObjAtOrEmpty(o, k) == IF k \in DOMAIN o /\ IsObj(o[k]) THEN o[k].obj ELSE Empty

\* The loop body with the full parse ahead of the switch: an element that
\* declares v1 or v2 is parsed as that version whatever is desired.
LoopBody_FullParseFirst(o, want, list) ==
    LET meta == UnmarshalTypeMeta(o.Raw)
        v1Obj == UnmarshalExampleV1(o.Raw)
        v2Obj == UnmarshalExampleV2(o.Raw)
        skip(how, m, p) ==
            [objMeta |-> m, parsed |-> p, converted |-> Nil, outcome |-> how,
             list |-> list]
        emit(m, p, c) ==
            [objMeta |-> m, parsed |-> p, converted |-> c, outcome |-> "converted",
             list |-> AppendObject(list, [Raw |-> MarshalConverted(c)])]
    IN  IF meta.err THEN skip("metaError", meta.v, Nil)
        ELSE IF meta.v.APIVersion = V1 /\ v1Obj.err THEN skip("v1Error", meta.v, v1Obj.v)
        ELSE IF meta.v.APIVersion = V2 /\ v2Obj.err THEN skip("v2Error", meta.v, v2Obj.v)
        ELSE IF IsV1ToV2(meta.v, want) THEN emit(meta.v, v1Obj.v, convertV1ToV2(v1Obj.v))
        ELSE IF IsV2ToV1(meta.v, want) THEN emit(meta.v, v2Obj.v, convertV2ToV1(v2Obj.v))
        ELSE [objMeta |-> meta.v, parsed |-> Nil, converted |-> Nil,
              outcome |-> "passthrough", list |-> AppendObject(list, o)]

\* The loop body converting the JSON object itself, without the typed
\* parse: the version is replaced and field2 added or dropped, and every
\* other member stays.
LoopBody_Unstructured(o, want, list) ==
    LET meta == UnmarshalTypeMeta(o.Raw)
        src == o.Raw.val.obj
        spec == ObjAtOrEmpty(src, "spec")
        out(version, sp) ==
            CompactText(JObj(("apiVersion" :> JStr(version)) @@ ("spec" :> JObj(sp))
                             @@ ("kind" :> JStr("Example")) @@ src))
        emit(entry) ==
            [objMeta |-> meta.v, parsed |-> Nil, converted |-> entry,
             outcome |-> "converted", list |-> AppendObject(list, [Raw |-> entry])]
    IN  IF meta.err
        THEN [objMeta |-> meta.v, parsed |-> Nil, converted |-> Nil,
              outcome |-> "metaError", list |-> list]
        ELSE IF IsV1ToV2(meta.v, want)
        THEN emit(out(V2, spec @@ ("field2" :> JStr(DefaultField2))))
        ELSE IF IsV2ToV1(meta.v, want)
        THEN emit(out(V1, [k \in DOMAIN spec \ {"field2"} |-> spec[k]]))
        ELSE [objMeta |-> meta.v, parsed |-> Nil, converted |-> Nil,
              outcome |-> "passthrough", list |-> AppendObject(list, o)]

\* One pass through the body of the range loop for the element o: the
\* locals it sets, the branch it leaves through and the list afterwards.
\* json.Marshal(converted) cannot fail: every value a decode produced is
\* encodable, so the branch of handler.go:64-67 has no input that takes it.
LoopBody(o, want, list) ==
    LET meta == UnmarshalTypeMeta(o.Raw)
        skip(how, m, p) ==
            [objMeta |-> m, parsed |-> p, converted |-> Nil, outcome |-> how,
             list |-> list]
    IN  IF meta.err THEN skip("metaError", meta.v, Nil)
        ELSE IF IsV1ToV2(meta.v, want)
        THEN LET v1Obj == UnmarshalExampleV1(o.Raw)
                 c == convertV1ToV2(v1Obj.v)
             IN  IF v1Obj.err THEN skip("v1Error", meta.v, v1Obj.v)
                 ELSE [objMeta |-> meta.v, parsed |-> v1Obj.v, converted |-> c,
                       outcome |-> "converted",
                       list |-> AppendObject(list, [Raw |-> MarshalConverted(c)])]
        ELSE IF IsV2ToV1(meta.v, want)
        THEN LET v2Obj == UnmarshalExampleV2(o.Raw)
                 c == convertV2ToV1(v2Obj.v)
             IN  IF v2Obj.err THEN skip("v2Error", meta.v, v2Obj.v)
                 ELSE [objMeta |-> meta.v, parsed |-> v2Obj.v, converted |-> c,
                       outcome |-> "converted",
                       list |-> AppendObject(list, [Raw |-> MarshalConverted(c)])]
        ELSE [objMeta |-> meta.v, parsed |-> Nil, converted |-> Nil,
              outcome |-> "passthrough", list |-> AppendObject(list, o)]

\* The response built without its UID field.
BuildReview_NoUID(rv, rq, list) ==
    [rv EXCEPT !.Response = [UID |-> "", ConvertedObjects |-> list,
                            Result |-> [Status |-> "Success"]],
               !.Request = Nil]

\* The envelope sent back with the request still in it.
BuildReview_KeepsRequest(rv, rq, list) ==
    [rv EXCEPT !.Response = [UID |-> rq.UID, ConvertedObjects |-> list,
                            Result |-> [Status |-> "Success"]]]

\* handler.go:72-79: the response replaces the request in the envelope.
BuildReview(rv, rq, list) ==
    [rv EXCEPT !.Response = [UID |-> rq.UID, ConvertedObjects |-> list,
                            Result |-> [Status |-> "Success"]],
               !.Request = Nil]

\* No invocation of HandleConvert is running.
NoInvocation ==
    /\ pc = "idle"
    /\ request = Nil
    /\ body = Nil
    /\ review = Nil
    /\ req = Nil
    /\ convertedObjects = <<>>
    /\ i = 1
    /\ obj = Nil
    /\ objMeta = Nil
    /\ parsed = Nil
    /\ converted = Nil
    /\ outcome = "none"
    /\ w = NoResponse

Init ==
    /\ NoInvocation
    /\ srv = Nil
    /\ inv = Nil
    /\ sh = Nil
    /\ mem = Nil

\* The server hands a request to /convert to HandleConvert.
Serve ==
    /\ pc = "idle"
    /\ \E r \in Requests : request' = r
    /\ pc' = "readAll"
    /\ UNCHANGED <<body, review, req, convertedObjects, i, obj, objMeta, parsed,
                   converted, outcome, w>>
    /\ UNCHANGED <<srv, inv, sh, mem>>

\* A handler that answers only POST: any other method gets HTTP 405.
ReadAll_PostOnly ==
    /\ pc = "readAll"
    /\ IF request.method # "POST"
       THEN /\ w' = HttpError(w, "method not allowed", 405)
            /\ pc' = "returned"
            /\ body' = body
       ELSE IF request.readErr
       THEN /\ w' = HttpError(w, "unexpected EOF", 400)
            /\ pc' = "returned"
            /\ body' = body
       ELSE /\ body' = request.body
            /\ pc' = "unmarshal"
            /\ w' = w
    /\ UNCHANGED <<request, review, req, convertedObjects, i, obj, objMeta,
                   parsed, converted, outcome>>
    /\ UNCHANGED <<srv, inv, sh, mem>>

\* handler.go:15-19.
ReadAll ==
    /\ pc = "readAll"
    /\ IF request.readErr
       THEN /\ w' = HttpError(w, "unexpected EOF", 400)
            /\ pc' = "returned"
            /\ body' = body
       ELSE /\ body' = request.body
            /\ pc' = "unmarshal"
            /\ w' = w
    /\ UNCHANGED <<request, review, req, convertedObjects, i, obj, objMeta,
                   parsed, converted, outcome>>
    /\ UNCHANGED <<srv, inv, sh, mem>>

\* Unmarshal without the return after http.Error.
Unmarshal_NoReturn ==
    /\ pc = "unmarshal"
    /\ LET r == UnmarshalReview(body)
       IN  /\ w' = IF r.err THEN HttpError(w, "json: cannot unmarshal", 400) ELSE w
           /\ review' = r.v
           /\ req' = r.v.Request
           /\ convertedObjects' = <<>>
           /\ pc' = "range"
    /\ UNCHANGED <<request, body, i, obj, objMeta, parsed, converted, outcome>>
    /\ UNCHANGED <<srv, inv, sh, mem>>

\* handler.go:21-28.
Unmarshal ==
    /\ pc = "unmarshal"
    /\ LET r == UnmarshalReview(body)
       IN  IF r.err
           THEN /\ w' = HttpError(w, "json: cannot unmarshal", 400)
                /\ pc' = "returned"
                /\ UNCHANGED <<review, req, convertedObjects>>
           ELSE /\ review' = r.v
                /\ req' = r.v.Request
                /\ convertedObjects' = <<>>
                /\ pc' = "range"
                /\ w' = w
    /\ UNCHANGED <<request, body, i, obj, objMeta, parsed, converted, outcome>>
    /\ UNCHANGED <<srv, inv, sh, mem>>

\* handler.go:30 with req nil: req.Objects dereferences a nil pointer.  The
\* goroutine panics; net/http recovers, logs and closes the connection
\* without a response.
RangeNil ==
    /\ pc = "range"
    /\ req = Nil
    /\ pc' = "panicked"
    /\ UNCHANGED <<request, body, review, req, convertedObjects, i, obj, objMeta,
                   parsed, converted, outcome, w>>
    /\ UNCHANGED <<srv, inv, sh, mem>>

\* The loop starting its list afresh after an element it skips.
RangeNext_Abandon ==
    /\ pc = "range"
    /\ req # Nil
    /\ i <= Len(req.Objects)
    /\ LET o == req.Objects[i]
           r == LoopBody(o, req.DesiredAPIVersion, convertedObjects)
       IN  /\ obj' = o
           /\ objMeta' = r.objMeta
           /\ parsed' = r.parsed
           /\ converted' = r.converted
           /\ outcome' = r.outcome
           /\ convertedObjects' = IF r.outcome \in {"converted", "passthrough"}
                                  THEN r.list ELSE <<>>
    /\ i' = i + 1
    /\ UNCHANGED <<pc, request, body, review, req, w>>
    /\ UNCHANGED <<srv, inv, sh, mem>>

\* The loop with break where the code has continue: a skipped element ends
\* the loop.
RangeNext_Break ==
    /\ pc = "range"
    /\ req # Nil
    /\ i <= Len(req.Objects)
    /\ LET o == req.Objects[i]
           r == LoopBody(o, req.DesiredAPIVersion, convertedObjects)
       IN  /\ obj' = o
           /\ objMeta' = r.objMeta
           /\ parsed' = r.parsed
           /\ converted' = r.converted
           /\ outcome' = r.outcome
           /\ convertedObjects' = r.list
           /\ i' = IF r.outcome \in {"converted", "passthrough"}
                   THEN i + 1
                   ELSE Len(req.Objects) + 1
    /\ UNCHANGED <<pc, request, body, review, req, w>>
    /\ UNCHANGED <<srv, inv, sh, mem>>

\* handler.go:30-70: one iteration of the loop.
RangeNext ==
    /\ pc = "range"
    /\ req # Nil
    /\ i <= Len(req.Objects)
    /\ LET o == req.Objects[i]
           r == LoopBody(o, req.DesiredAPIVersion, convertedObjects)
       IN  /\ obj' = o
           /\ objMeta' = r.objMeta
           /\ parsed' = r.parsed
           /\ converted' = r.converted
           /\ outcome' = r.outcome
           /\ convertedObjects' = r.list
    /\ i' = i + 1
    /\ UNCHANGED <<pc, request, body, review, req, w>>
    /\ UNCHANGED <<srv, inv, sh, mem>>

\* handler.go:72-88: the loop is over; build, encode and write the envelope.
\* json.Marshal(review) cannot fail either: every Raw is JSON the decoder
\* accepted or the encoder wrote, so handler.go:82-85 (HTTP 500) has no
\* input that takes it.
Respond ==
    /\ pc = "range"
    /\ req # Nil
    /\ i > Len(req.Objects)
    /\ review' = BuildReview(review, req, convertedObjects)
    /\ w' = WriteJSON(w, MarshalReview(review'))
    /\ pc' = "returned"
    /\ UNCHANGED <<request, body, req, convertedObjects, i, obj, objMeta, parsed,
                   converted, outcome>>
    /\ UNCHANGED <<srv, inv, sh, mem>>

\* The invocation is over (it returned or its panic was recovered) and the
\* server takes the next request with fresh locals.
Finish ==
    /\ pc \in {"returned", "panicked"}
    /\ pc' = "idle"
    /\ request' = Nil
    /\ body' = Nil
    /\ review' = Nil
    /\ req' = Nil
    /\ convertedObjects' = <<>>
    /\ i' = 1
    /\ obj' = Nil
    /\ objMeta' = Nil
    /\ parsed' = Nil
    /\ converted' = Nil
    /\ outcome' = "none"
    /\ w' = NoResponse
    /\ UNCHANGED <<srv, inv, sh, mem>>

Next ==
    \/ Serve
    \/ ReadAll
    \/ Unmarshal
    \/ RangeNil
    \/ RangeNext
    \/ Respond
    \/ Finish

Spec == Init /\ [][Next]_vars

---------------------------------------------------------------------------
\* HandleConvert from entry to exit, as one function of the body it reads.

\* The list the loop has built after the first n elements of objs.
RECURSIVE ConvertedUpTo(_, _, _)
ConvertedUpTo(objs, want, n) ==
    IF n = 0 THEN <<>>
    ELSE LoopBody(objs[n], want, ConvertedUpTo(objs, want, n - 1)).list

\* How the invocation ends and what it has written.
HandleConvert(b) ==
    LET r == UnmarshalReview(b)
        rq == r.v.Request
    IN  IF r.err
        THEN [pc |-> "returned",
              w |-> HttpError(NoResponse, "json: cannot unmarshal", 400)]
        ELSE IF rq = Nil THEN [pc |-> "panicked", w |-> NoResponse]
        ELSE [pc |-> "returned",
              w |-> WriteJSON(NoResponse,
                        MarshalReview(BuildReview(r.v, rq,
                            ConvertedUpTo(rq.Objects, rq.DesiredAPIVersion,
                                          Len(rq.Objects)))))]

---------------------------------------------------------------------------
\* main: the server process around the handlers.

\* An environment variable: not set, or set to a value.
Unset == [set |-> FALSE]
SetTo(v) == [set |-> TRUE, value |-> v]

DefaultCertPath == "/etc/certs/tls.crt"
DefaultKeyPath == "/etc/certs/tls.key"
CustomCertPath == "/custom/tls.crt"
CustomKeyPath == "/custom/tls.key"
ListenAddr == ":8443"

\* The values the environment gives the two variables: not set, set to the
\* empty string, set to a path.
CertSettings == {Unset, SetTo(""), SetTo(CustomCertPath)}
KeySettings == {Unset, SetTo(""), SetTo(CustomKeyPath)}

\* The key-pair files the container has: none, the pair at the default
\* paths, the pair at the custom paths, or both pairs.
FileSystems ==
    {{}, {DefaultCertPath, DefaultKeyPath}, {CustomCertPath, CustomKeyPath},
     {DefaultCertPath, DefaultKeyPath, CustomCertPath, CustomKeyPath}}

\* os.Getenv: the value of the variable, "" when it is not set.
Getenv(environ, name) == IF environ[name].set THEN environ[name].value ELSE ""

\* tls.LoadX509KeyPair succeeds on two files that are there.
KeyPairLoads(files, certPath, keyPath) == certPath \in files /\ keyPath \in files

Methods == {"GET", "POST", "HEAD"}

\* What net/http puts on the wire of what a handler wrote: the status and
\* the headers, and the body unless the request is a HEAD request, whose
\* handler's writes the server discards.
OnTheWire(method, rw) == IF method = "HEAD" THEN [rw EXCEPT !.body = Nil] ELSE rw

\* The requests to /convert the server is sent: a method, a Content-Type
\* header and a body (or a connection that breaks while it is read).
ServerObjectLists == {<<>>, <<ObjV1>>, <<ObjV2Rich>>, <<ObjNull>>, <<ObjV1, ObjOther>>}
ServerBodies ==
    {InvalidJSON, CompactText(JObj(Empty))}
    \cup {ReviewBody("abc", want, objs) :
            want \in {V1, V2}, objs \in ServerObjectLists}
ServerRequests ==
    {[readErr |-> e, body |-> b, method |-> m,
      contentType |-> IF m = "GET" THEN "" ELSE "application/json"] :
        e \in {FALSE}, b \in ServerBodies, m \in Methods}
    \cup {[readErr |-> TRUE, body |-> Nil, method |-> "POST",
           contentType |-> "application/json"]}

\* What the /health handler writes: the status 200 and the body "OK" (the
\* server adds the Content-Type it sniffs from the body).
HealthResponse ==
    [code |-> 200, contentType |-> "text/plain; charset=utf-8",
     body |-> [text |-> "OK"], writes |-> 1]

\* How an invocation of HandleConvert ended.
Ending ==
    IF pc = "panicked" THEN "panicked"
    ELSE IF w.code = 200 THEN "success" ELSE "rejected"

ServerInit ==
    /\ NoInvocation
    /\ srv \in {[pc |-> "getenv", environ |-> [TLS_CERT_FILE |-> c,
                                                TLS_PRIVATE_KEY_FILE |-> k],
                 files |-> f, certPath |-> "", keyPath |-> "", cert |-> Nil,
                 addr |-> "", handlers |-> {}, listening |-> FALSE,
                 exited |-> FALSE, status |-> 0, health |-> Nil,
                 last |-> "none"] :
                    c \in CertSettings, k \in KeySettings, f \in FileSystems}
    /\ inv = Nil
    /\ sh = Nil
    /\ mem = Nil

HandlerLocals ==
    <<pc, request, body, review, req, convertedObjects, i, obj, objMeta, parsed,
      converted, outcome, w>>

\* main.go:13-14.
GetenvPaths ==
    /\ srv.pc = "getenv"
    /\ srv' = [srv EXCEPT !.certPath = Getenv(srv.environ, "TLS_CERT_FILE"),
                          !.keyPath = Getenv(srv.environ, "TLS_PRIVATE_KEY_FILE"),
                          !.pc = "defaults"]
    /\ UNCHANGED <<HandlerLocals, inv, sh, mem>>

\* The key path defaulted only when the certificate path is defaulted too.
DefaultPaths_Coupled ==
    /\ srv.pc = "defaults"
    /\ srv' = [srv EXCEPT
                 !.certPath = IF srv.certPath = "" THEN DefaultCertPath ELSE @,
                 !.keyPath = IF srv.certPath = "" /\ srv.keyPath = ""
                             THEN DefaultKeyPath ELSE @,
                 !.pc = "load"]
    /\ UNCHANGED <<HandlerLocals, inv, sh, mem>>

\* main.go:16-21.
DefaultPaths ==
    /\ srv.pc = "defaults"
    /\ srv' = [srv EXCEPT
                 !.certPath = IF srv.certPath = "" THEN DefaultCertPath ELSE @,
                 !.keyPath = IF srv.keyPath = "" THEN DefaultKeyPath ELSE @,
                 !.pc = "load"]
    /\ UNCHANGED <<HandlerLocals, inv, sh, mem>>

\* The load error logged and startup carried on without a certificate.
LoadX509KeyPair_LogOnly ==
    /\ srv.pc = "load"
    /\ srv' = [srv EXCEPT
                 !.cert = IF KeyPairLoads(srv.files, srv.certPath, srv.keyPath)
                          THEN [certPath |-> srv.certPath, keyPath |-> srv.keyPath]
                          ELSE Nil,
                 !.pc = "server"]
    /\ UNCHANGED <<HandlerLocals, inv, sh, mem>>

\* main.go:23-26: log.Fatalf ends the process with status 1.
LoadX509KeyPair ==
    /\ srv.pc = "load"
    /\ IF KeyPairLoads(srv.files, srv.certPath, srv.keyPath)
       THEN srv' = [srv EXCEPT !.cert = [certPath |-> srv.certPath,
                                         keyPath |-> srv.keyPath],
                               !.pc = "server"]
       ELSE srv' = [srv EXCEPT !.exited = TRUE, !.status = 1, !.pc = "exited"]
    /\ UNCHANGED <<HandlerLocals, inv, sh, mem>>

\* main.go:28-31.
NewServer ==
    /\ srv.pc = "server"
    /\ srv' = [srv EXCEPT !.addr = ListenAddr, !.pc = "handle"]
    /\ UNCHANGED <<HandlerLocals, inv, sh, mem>>

\* main.go:33-37.
HandleFunc ==
    /\ srv.pc = "handle"
    /\ srv' = [srv EXCEPT !.handlers = {"/convert", "/health"}, !.pc = "listen"]
    /\ UNCHANGED <<HandlerLocals, inv, sh, mem>>

\* main.go:39-42: the listener opens and the server serves, or the address
\* cannot be bound and log.Fatalf ends the process.
ListenAndServeTLS ==
    /\ srv.pc = "listen"
    /\ \/ srv' = [srv EXCEPT !.listening = TRUE, !.pc = "serving"]
       \/ srv' = [srv EXCEPT !.exited = TRUE, !.status = 1, !.pc = "exited"]
    /\ UNCHANGED <<HandlerLocals, inv, sh, mem>>

\* A /health handler that reports the state of the conversion path.  In
\* srv.health: the method of the latest /health request, how the latest
\* /convert request before it ended, and the answer the client gets.
Health_Degraded ==
    /\ srv.pc = "serving"
    /\ "/health" \in srv.handlers
    /\ \E m \in Methods :
           srv' = [srv EXCEPT !.health =
                       [method |-> m, after |-> srv.last,
                        w |-> OnTheWire(m, IF srv.last = "panicked"
                                           THEN [HealthResponse EXCEPT !.code = 503]
                                           ELSE HealthResponse)]]
    /\ UNCHANGED <<HandlerLocals, inv, sh, mem>>

\* main.go:34-37: a request to /health, served on its own goroutine
\* whatever the /convert handler is doing.
Health ==
    /\ srv.pc = "serving"
    /\ "/health" \in srv.handlers
    /\ \E m \in Methods :
           srv' = [srv EXCEPT !.health = [method |-> m, after |-> srv.last,
                                          w |-> OnTheWire(m, HealthResponse)]]
    /\ UNCHANGED <<HandlerLocals, inv, sh, mem>>

\* main.go:33: the serving process hands a request to /convert to
\* HandleConvert.
ServeConvert ==
    /\ srv.pc = "serving"
    /\ "/convert" \in srv.handlers
    /\ pc = "idle"
    /\ \E r \in ServerRequests : request' = r
    /\ pc' = "readAll"
    /\ UNCHANGED <<body, review, req, convertedObjects, i, obj, objMeta, parsed,
                   converted, outcome, w>>
    /\ UNCHANGED <<srv, inv, sh, mem>>

\* The invocation is over, as in Finish; the process lives on, after a
\* recovered panic too.
ConnDone ==
    /\ srv.pc = "serving"
    /\ pc \in {"returned", "panicked"}
    /\ srv' = [srv EXCEPT !.last = Ending]
    /\ pc' = "idle"
    /\ request' = Nil
    /\ body' = Nil
    /\ review' = Nil
    /\ req' = Nil
    /\ convertedObjects' = <<>>
    /\ i' = 1
    /\ obj' = Nil
    /\ objMeta' = Nil
    /\ parsed' = Nil
    /\ converted' = Nil
    /\ outcome' = "none"
    /\ w' = NoResponse
    /\ UNCHANGED <<inv, sh, mem>>

ServerNext ==
    \/ GetenvPaths
    \/ DefaultPaths
    \/ LoadX509KeyPair
    \/ NewServer
    \/ HandleFunc
    \/ ListenAndServeTLS
    \/ Health
    \/ ServeConvert
    \/ ReadAll
    \/ Unmarshal
    \/ RangeNil
    \/ RangeNext
    \/ Respond
    \/ ConnDone

ServerSpec == ServerInit /\ [][ServerNext]_vars

---------------------------------------------------------------------------
\* HandleConvert on several goroutines at once: net/http serves every
\* connection on its own goroutine, and every invocation has its own locals.

Invocations == 1..MaxInvocations

\* The locals of an invocation that has not been handed a request.
IdleLocals ==
    [pc |-> "idle", request |-> Nil, body |-> Nil, review |-> Nil, req |-> Nil,
     convertedObjects |-> <<>>, i |-> 1, w |-> NoResponse]

\* The requests the concurrent invocations are handed.
ConcRequests ==
    {[readErr |-> TRUE, body |-> Nil]}
    \cup {[readErr |-> FALSE, body |-> b] :
            b \in {InvalidJSON,
                   CompactText(JObj(Empty)),
                   ReviewBody("abc", V2, <<ObjV1>>),
                   ReviewBody("", V2, <<ObjV1BadSpec, ObjV1Rich>>),
                   ReviewBody("abc", V1, <<ObjV2Rich, ObjV1>>),
                   ReviewBody("abc", V1, <<ObjV2, ObjNull>>)}}

\* One step of HandleConvert on the locals l, as ReadAll, Unmarshal,
\* RangeNil, RangeNext and Respond take it.
HandlerStep(l) ==
    IF l.pc = "readAll"
    THEN IF l.request.readErr
         THEN [l EXCEPT !.w = HttpError(l.w, "unexpected EOF", 400),
                        !.pc = "returned"]
         ELSE [l EXCEPT !.body = l.request.body, !.pc = "unmarshal"]
    ELSE IF l.pc = "unmarshal"
    THEN LET r == UnmarshalReview(l.body)
         IN  IF r.err
             THEN [l EXCEPT !.w = HttpError(l.w, "json: cannot unmarshal", 400),
                            !.pc = "returned"]
             ELSE [l EXCEPT !.review = r.v, !.req = r.v.Request,
                            !.convertedObjects = <<>>, !.pc = "range"]
    ELSE IF l.req = Nil
    THEN [l EXCEPT !.pc = "panicked"]
    ELSE IF l.i <= Len(l.req.Objects)
    THEN [l EXCEPT !.convertedObjects =
                       LoopBody(l.req.Objects[l.i], l.req.DesiredAPIVersion,
                                l.convertedObjects).list,
                   !.i = l.i + 1]
    ELSE LET rv == BuildReview(l.review, l.req, l.convertedObjects)
         IN  [l EXCEPT !.review = rv, !.w = WriteJSON(l.w, MarshalReview(rv)),
                       !.pc = "returned"]

ConcInit ==
    /\ NoInvocation
    /\ srv = Nil
    /\ inv = [k \in Invocations |-> IdleLocals]
    /\ sh = Nil
    /\ mem = Nil

\* main.go:33: a connection's goroutine is handed a request to /convert.
Arrive(k) ==
    /\ inv[k].pc = "idle"
    /\ \E r \in ConcRequests :
           inv' = [inv EXCEPT ![k] = [@ EXCEPT !.request = r, !.pc = "readAll"]]
    /\ UNCHANGED <<HandlerLocals, srv, sh, mem>>

\* convertedObjects as a package-level variable: every invocation works on
\* the list of the first.
Step_SharedList(k) ==
    /\ inv[k].pc \in {"readAll", "unmarshal", "range"}
    /\ LET shared == inv[1].convertedObjects
           n == HandlerStep([inv[k] EXCEPT !.convertedObjects = shared])
       IN  inv' = [j \in Invocations |->
                      IF j = k THEN n
                      ELSE IF j = 1
                      THEN [inv[1] EXCEPT !.convertedObjects = n.convertedObjects]
                      ELSE inv[j]]
    /\ UNCHANGED <<HandlerLocals, srv, sh, mem>>

\* handler.go:14-89: the goroutine k takes its next step, on its own locals.
Step(k) ==
    /\ inv[k].pc \in {"readAll", "unmarshal", "range"}
    /\ inv' = [inv EXCEPT ![k] = HandlerStep(inv[k])]
    /\ UNCHANGED <<HandlerLocals, srv, sh, mem>>

\* handler.go:89: the invocation is over and its goroutine takes the next
\* request of its connection.
Leave(k) ==
    /\ inv[k].pc \in {"returned", "panicked"}
    /\ inv' = [inv EXCEPT ![k] = IdleLocals]
    /\ UNCHANGED <<HandlerLocals, srv, sh, mem>>

ConcNext ==
    \/ \E k \in Invocations : Arrive(k)
    \/ \E k \in Invocations : Step(k)
    \/ \E k \in Invocations : Leave(k)

ConcSpec == ConcInit /\ [][ConcNext]_vars

---------------------------------------------------------------------------
\* The shell scripts.  A script is the sequence of its commands, run under
\* set -e: a command that fails ends the script with its status, unless it
\* stands in a || list or as the condition of an if.  The environment is
\* the set of the things that exist: clusters, namespaces, releases and the
\* objects in the clusters.

\* The things the scripts make, delete and ask for.
ArgoCluster == "cluster argocd-cluster"
TargetCluster == "cluster target-cluster"
ArgoNamespace == "namespace argocd"
ArgoRelease == "helm release argocd"
WebhookNamespace == "namespace webhook-system"
ManagerAccount == "serviceaccount argocd-manager"
ManagerBinding == "clusterrolebinding argocd-manager-binding"
WebhookApp == "application webhook-service-app"
WebhookService == "service conversion-webhook-service"
BrokenWebhookCRD == "crd examples with the broken webhook"
ArgoAPI == "localhost:8080 forwarded to argocd-server"
LoginToken == "argocd session token"

\* The command at `line`: what it does (op) to what (res), what has to
\* exist for it to succeed (needs), what must not exist (blocks), whether
\* a failure of it is caught (guarded) and whether it may time out (timed).
Cmd(line, op, res, needs, blocks, guarded, timed) ==
    [line |-> line, op |-> op, res |-> res, needs |-> needs, blocks |-> blocks,
     guarded |-> guarded, timed |-> timed]

\* kind create cluster, kubectl create, helm install: fail when the thing
\* exists already.
Create(line, res, needs) == Cmd(line, "create", {res}, needs, {res}, FALSE, FALSE)
\* kubectl apply, helm repo add: create or update.
Apply(line, res, needs) == Cmd(line, "apply", {res}, needs, {}, FALSE, FALSE)
\* kubectl delete: fails when the thing is not there; the deletion takes
\* everything in res with it.
Delete(line, res, needs) == Cmd(line, "delete", res, needs, {}, FALSE, FALSE)
\* kubectl get, kubectl config use-context, docker inspect: read only.
Get(line, needs) == Cmd(line, "get", {}, needs, {}, FALSE, FALSE)
\* kubectl get of the custom resources: the API server converts what it
\* returns through the webhook the CRD names.
List(line, needs) == Cmd(line, "list", {}, needs, {}, FALSE, FALSE)
\* kubectl wait --timeout: may run out of time.
Wait(line, needs) == Cmd(line, "get", {}, needs, {}, FALSE, TRUE)

\* A script in which no failure is caught.
Guarded_Never(c) == c

\* cmd || echo ...: the failure is caught.
Guarded(c) == [c EXCEPT !.guarded = TRUE]

\* The custom resources cannot be read: the CRD names a conversion webhook
\* whose service is gone.
ConversionFails(env) == BrokenWebhookCRD \in env /\ WebhookService \notin env

\* The exit status of the command in the environment env.
ExitStatus(c, env) ==
    IF /\ c.needs \subseteq env
       /\ c.blocks \cap env = {}
       /\ c.op = "list" => ~ConversionFails(env)
    THEN 0 ELSE 1

\* The environment after the command succeeded.
Effect(c, env) ==
    IF c.op \in {"create", "apply"} THEN env \cup c.res
    ELSE IF c.op = "delete" THEN env \ c.res
    ELSE env

\* A script about to run its first command on the environment env.
StartOf(env, run, prev) ==
    [at |-> 1, env |-> env, before |-> env, run |-> run, result |-> "running",
     status |-> 0, prev |-> prev]

\* The shell runs the command at sh.at of the script cmds; timedOut says
\* whether a timed command ran out of time.
RunCommand(cmds, timedOut) ==
    LET c == cmds[sh.at]
        status == IF timedOut THEN 1 ELSE ExitStatus(c, sh.env)
        env == IF status = 0 THEN Effect(c, sh.env) ELSE sh.env
    IN  IF status # 0 /\ ~c.guarded
        THEN [sh EXCEPT !.result = "aborted", !.status = status]
        ELSE IF sh.at = Len(cmds)
        THEN [sh EXCEPT !.env = env, !.result = "completed", !.status = 0]
        ELSE [sh EXCEPT !.env = env, !.at = sh.at + 1]

\* scripts/setup.sh, lines 1-190.  The port-forward check of the lines
\* 58-70 runs in the background and under if and || true: it cannot end
\* the script.
SetupCommands ==
    << Create(12, ArgoCluster, {}),
       Create(13, TargetCluster, {}),
       Get(17, {ArgoCluster}),
       Apply(18, "helm repo argo", {}),
       Get(19, {"helm repo argo"}),
       Create(20, ArgoNamespace, {ArgoCluster}),
       Create(21, ArgoRelease, {ArgoNamespace, "helm repo argo"}),
       Wait(29, {ArgoRelease}),
       Apply(33, "application argocd", {ArgoRelease}),
       Wait(36, {ArgoRelease}),
       Wait(39, {ArgoRelease}),
       Get(45, {}),
       Guarded(Get(49, {"application argocd"})),
       Get(53, {ArgoCluster}),
       Get(54, {ArgoRelease}),
       Get(81, {TargetCluster}),
       Create(82, WebhookNamespace, {TargetCluster}),
       Apply(85, "crd examples", {TargetCluster}),
       Get(88, {"crd examples"}),
       Apply(92, "test resources", {"crd examples"}),
       List(95, {"crd examples"}),
       List(96, {"crd examples"}),
       List(97, {"crd examples"}),
       Get(106, {}),
       Get(108, {TargetCluster}),
       Create(112, ManagerAccount, {TargetCluster}),
       Create(113, ManagerBinding, {TargetCluster}),
       Apply(114, "secret argocd-manager-token", {TargetCluster}),
       Get(116, {}),
       Get(117, {"secret argocd-manager-token"}),
       Get(120, {ArgoCluster}),
       Apply(121, "secret target-cluster", {ArgoNamespace}),
       Apply(125, "applications", {ArgoRelease}),
       Get(131, {ArgoRelease}),
       Guarded(Wait(137, {ArgoRelease})),
       Get(154, {ArgoRelease}),
       Get(158, {TargetCluster}),
       Get(159, {TargetCluster}),
       List(160, {"crd examples"}),
       Get(162, {ArgoCluster}) >>

\* What the machine holds before the script runs: nothing, or what an
\* interrupted run left; a namespace, a release or an account only in a
\* cluster that exists.
SetupEnvironments ==
    {e \in SUBSET {ArgoCluster, TargetCluster, ArgoNamespace, ArgoRelease,
                   WebhookNamespace, ManagerAccount, ManagerBinding} :
        /\ ArgoNamespace \in e => ArgoCluster \in e
        /\ ArgoRelease \in e => ArgoNamespace \in e
        /\ WebhookNamespace \in e => TargetCluster \in e
        /\ ManagerAccount \in e => TargetCluster \in e
        /\ ManagerBinding \in e => TargetCluster \in e}

SetupInit ==
    /\ NoInvocation
    /\ srv = Nil
    /\ inv = Nil
    /\ sh \in {StartOf(e, 1, "none") : e \in SetupEnvironments}
    /\ mem = Nil

\* setup.sh runs its next command.
SetupStep ==
    /\ sh.result = "running"
    /\ \E timedOut \in IF SetupCommands[sh.at].timed THEN BOOLEAN ELSE {FALSE} :
           sh' = RunCommand(SetupCommands, timedOut)
    /\ UNCHANGED <<HandlerLocals, srv, inv, mem>>

\* The script is run again on the environment the run before left.
SetupAgain ==
    /\ sh.result # "running"
    /\ sh.run < MaxRuns
    /\ sh' = StartOf(sh.env, sh.run + 1, sh.result)
    /\ UNCHANGED <<HandlerLocals, srv, inv, mem>>

SetupNext ==
    \/ SetupStep
    \/ SetupAgain

SetupSpec == SetupInit /\ [][SetupNext]_vars

\* scripts/break.sh, lines 246-424: the CRD-evolution break.  The lines
\* 293 and 294 are a && b || c lists and never fail; the pipelines of the
\* lines 331, 337, 349 and 354 end in sed, base64 and cut.  Deleting the
\* application makes Argo CD remove the service it deployed (line 288
\* waits for that).
BreakCommands ==
    << Get(268, {TargetCluster}),
       Guarded(List(273, {TargetCluster})),
       Guarded(List(276, {TargetCluster})),
       Get(280, {ArgoCluster}),
       Guarded(Delete(284, {WebhookApp, WebhookService}, {ArgoCluster, WebhookApp})),
       Get(291, {TargetCluster}),
       Guarded(Get(293, {WebhookService})),
       Guarded(Get(294, {WebhookService})),
       Guarded(Apply(298, BrokenWebhookCRD, {TargetCluster})),
       Guarded(List(308, {TargetCluster})),
       Guarded(List(312, {TargetCluster})),
       Guarded(List(316, {TargetCluster})),
       Get(320, {ArgoCluster}),
       Get(326, {}),
       Get(327, {TargetCluster}),
       Get(337, {}),
       Guarded(Get(341, {ArgoAPI})),
       Guarded(Get(361, {ArgoAPI, LoginToken})),
       Guarded(Get(382, {ArgoCluster, "application external-cluster-app"})),
       Get(388, {ArgoCluster}) >>

\* What the break script may find: the clusters up or down, the webhook
\* application and its service there or gone, the CRD with or without the
\* broken webhook, the Argo CD API reachable or not.
BreakEnvironments ==
    {e \in SUBSET {ArgoCluster, TargetCluster, WebhookApp, WebhookService,
                   BrokenWebhookCRD, ArgoAPI, LoginToken,
                   "application external-cluster-app"} :
        /\ WebhookApp \in e => ArgoCluster \in e
        /\ "application external-cluster-app" \in e => ArgoCluster \in e
        /\ WebhookService \in e => TargetCluster \in e
        /\ BrokenWebhookCRD \in e => TargetCluster \in e
        /\ ArgoAPI \in e => ArgoCluster \in e
        /\ LoginToken \in e => ArgoAPI \in e}

BreakInit ==
    /\ NoInvocation
    /\ srv = Nil
    /\ inv = Nil
    /\ sh \in {StartOf(e, 1, "none") : e \in BreakEnvironments}
    /\ mem = Nil

\* break.sh runs its next command.
BreakStep ==
    /\ sh.result = "running"
    /\ sh' = RunCommand(BreakCommands, FALSE)
    /\ UNCHANGED <<HandlerLocals, srv, inv, mem>>

\* The script is run again on the environment the run before left.
BreakAgain ==
    /\ sh.result # "running"
    /\ sh.run < MaxRuns
    /\ sh' = StartOf(sh.env, sh.run + 1, sh.result)
    /\ UNCHANGED <<HandlerLocals, srv, inv, mem>>

BreakNext ==
    \/ BreakStep
    \/ BreakAgain

BreakSpec == BreakInit /\ [][BreakNext]_vars

---------------------------------------------------------------------------
\* ExampleV1 and ExampleV2 values in memory.  A struct holds its strings by
\* value and its maps by reference: ObjectMeta.Labels is nil (0) or the
\* address of a map, and Status holds a scalar by value or the address of
\* the map[string]interface{} a JSON object decoded to.  mem.structs and
\* mem.maps are the heap, an address being an index; mem.origin says how
\* each struct came to be and mem.last what the latest operation was, with
\* the values all structs had before it.

NilMap == 0
ByValue(v) == [val |-> v]
ByRef(n) == [ref |-> n]
IsRef(x) == "ref" \in DOMAIN x

\* The struct a decode of the version with the metadata and status given
\* leaves in memory.
Struct(version, kind, labels, status, spec) ==
    [TypeMeta |-> [Kind |-> kind, APIVersion |-> version],
     ObjectMeta |-> [Name |-> "x", Namespace |-> "", Labels |-> labels,
                     CreationTimestamp |-> ""],
     Spec |-> spec,
     Status |-> status]

\* The heaps the operations start from: one decoded object, of either
\* version, with or without labels, with no status, a string or a map.
InitialHeaps ==
    {[structs |-> <<Struct(t.version, kind, IF labelled THEN 1 ELSE NilMap,
                           st, t.spec)>>,
      maps |-> <<[app |-> "demo"], [observed |-> "1"]>>,
      origin |-> <<[how |-> "decoded", of |-> 0]>>,
      last |-> [op |-> "none", arg |-> 0, res |-> 0, before |-> <<>>]] :
        t \in {[version |-> V1, spec |-> [Field1 |-> "hello"]],
               [version |-> V2, spec |-> [Field1 |-> "hello", Field2 |-> "custom"]]},
        kind \in {"Example"},
        labelled \in BOOLEAN,
        st \in {ByValue(JNull), ByValue(JStr("Ready")), ByRef(2)}}

\* The value of the struct at address a, maps followed.
Deref(h, a) ==
    LET e == h.structs[a]
    IN  [e EXCEPT !.ObjectMeta.Labels =
                      IF @ = NilMap THEN Empty ELSE h.maps[@],
                  !.Status = IF IsRef(@) THEN h.maps[@.ref] ELSE @.val]

\* The values of all structs.
Snapshot(h) == [a \in DOMAIN h.structs |-> Deref(h, a)]

\* ObjectMeta copied by assignment: the copy holds the same map.
DeepCopyInto_Shallow(h, om) == [maps |-> h.maps, om |-> om]

\* metav1.ObjectMeta.DeepCopyInto: Labels gets a map of its own (nil stays
\* nil).
DeepCopyInto(h, om) ==
    IF om.Labels = NilMap THEN [maps |-> h.maps, om |-> om]
    ELSE [maps |-> Append(h.maps, h.maps[om.Labels]),
          om |-> [om EXCEPT !.Labels = Len(h.maps) + 1]]

IsV2Struct(e) == "Field2" \in DOMAIN e.Spec

HeapInit ==
    /\ NoInvocation
    /\ srv = Nil
    /\ inv = Nil
    /\ sh = Nil
    /\ mem \in InitialHeaps

\* conversion.go:7-29: the result is a new struct built from the fields of
\* the argument.
Convert ==
    /\ Len(mem.structs) < MaxStructs
    /\ \E a \in DOMAIN mem.structs :
           LET e == mem.structs[a]
               r == IF IsV2Struct(e) THEN convertV2ToV1(e) ELSE convertV1ToV2(e)
           IN  mem' = [mem EXCEPT
                         !.structs = Append(@, r),
                         !.origin = Append(@, [how |-> "converted", of |-> a]),
                         !.last = [op |-> "convert", arg |-> a,
                                   res |-> Len(mem.structs) + 1,
                                   before |-> Snapshot(mem)]]
    /\ UNCHANGED <<HandlerLocals, srv, inv, sh>>

\* part_001:20-33 and 48-62: DeepCopyObject on the struct at a, or on nil
\* (a = 0).
DeepCopyObject ==
    /\ Len(mem.structs) < MaxStructs
    /\ \E a \in 0..Len(mem.structs) :
           IF a = 0
           THEN mem' = [mem EXCEPT !.last = [op |-> "copy", arg |-> 0, res |-> 0,
                                             before |-> Snapshot(mem)]]
           ELSE LET e == mem.structs[a]
                    c == DeepCopyInto(mem, e.ObjectMeta)
                    out == [TypeMeta |-> e.TypeMeta, ObjectMeta |-> c.om,
                            Spec |-> e.Spec, Status |-> e.Status]
                IN  mem' = [mem EXCEPT
                              !.structs = Append(@, out),
                              !.maps = c.maps,
                              !.origin = Append(@, [how |-> "copied", of |-> a]),
                              !.last = [op |-> "copy", arg |-> a,
                                        res |-> Len(mem.structs) + 1,
                                        before |-> Snapshot(mem)]]
    /\ UNCHANGED <<HandlerLocals, srv, inv, sh>>

\* A caller writes obj.Labels["app"] = "changed" on the struct at a.
SetLabel ==
    /\ \E a \in DOMAIN mem.structs :
           /\ mem.structs[a].ObjectMeta.Labels # NilMap
           /\ mem.maps[mem.structs[a].ObjectMeta.Labels] # [app |-> "changed"]
           /\ mem' = [mem EXCEPT
                        !.maps[mem.structs[a].ObjectMeta.Labels] = [app |-> "changed"],
                        !.last = [op |-> "setLabel", arg |-> a, res |-> a,
                                  before |-> Snapshot(mem)]]
    /\ UNCHANGED <<HandlerLocals, srv, inv, sh>>

\* A caller writes obj.Name = "renamed" on the struct at a.
SetName ==
    /\ \E a \in DOMAIN mem.structs :
           /\ mem.structs[a].ObjectMeta.Name # "renamed"
           /\ mem' = [mem EXCEPT
                        !.structs[a].ObjectMeta.Name = "renamed",
                        !.last = [op |-> "setName", arg |-> a, res |-> a,
                                  before |-> Snapshot(mem)]]
    /\ UNCHANGED <<HandlerLocals, srv, inv, sh>>

\* A caller writes obj.Status.(map[string]interface{})["observed"] = "2" on
\* the struct at a.
SetStatus ==
    /\ \E a \in DOMAIN mem.structs :
           /\ IsRef(mem.structs[a].Status)
           /\ mem.maps[mem.structs[a].Status.ref] # [observed |-> "2"]
           /\ mem' = [mem EXCEPT
                        !.maps[mem.structs[a].Status.ref] = [observed |-> "2"],
                        !.last = [op |-> "setStatus", arg |-> a, res |-> a,
                                  before |-> Snapshot(mem)]]
    /\ UNCHANGED <<HandlerLocals, srv, inv, sh>>

HeapNext ==
    \/ Convert
    \/ DeepCopyObject
    \/ SetLabel
    \/ SetName
    \/ SetStatus

HeapSpec == HeapInit /\ [][HeapNext]_vars

---------------------------------------------------------------------------
\* The cross-namespace ownership test setup (setup.sh:192-426), a bash
\* script under set -e.  sh holds the kubeconfig (the current context and
\* the contexts it knows), the script's variables and position, and what
\* the environment will do: at which poll the ClusterRole first exists.

max_attempts == 30

OtherContext == "docker-desktop"
Contexts == {ArgoCluster, TargetCluster, OtherContext}

\* Where the script is, by the line of the command it is about to run.
CrossStart ==
    {[at |-> "206", ctx |-> c, known |-> k \cup {c}, INITIAL_CONTEXT |-> "",
      trap |-> FALSE, attempt |-> 0, polls |-> 0, appearsAt |-> n,
      appExists |-> app, wait |-> "none", timeout |-> FALSE,
      exited |-> FALSE, status |-> 0, ctxAtExit |-> ""] :
        c \in Contexts,
        k \in {{}, {ArgoCluster}, {ArgoCluster, TargetCluster}},
        n \in 1..(max_attempts + 1),
        app \in BOOLEAN}

CrossInit ==
    /\ NoInvocation
    /\ srv = Nil
    /\ inv = Nil
    /\ mem = Nil
    /\ sh \in CrossStart

\* The process ends without the EXIT trap doing anything.
cleanup_Nothing(s) == s.ctx

\* cleanup (217-223), run by the EXIT trap (226) once it is installed: the
\* context the kubeconfig is left with.
cleanup(s) ==
    IF s.trap /\ s.ctx # s.INITIAL_CONTEXT THEN s.INITIAL_CONTEXT ELSE s.ctx

\* The process exits with the status given; the trap runs first.
Exit(s, status) ==
    [s EXCEPT !.at = "exit", !.exited = TRUE, !.status = status,
              !.ctxAtExit = s.ctx, !.ctx = cleanup(s)]

\* A plain command under set -e: on, or out with status 1.
OrAbort(s, ok, next) == IF ok THEN [s EXCEPT !.at = next] ELSE Exit(s, 1)

\* check_context (229-238): kubectl config use-context when the current
\* context is another, which fails for a context the kubeconfig lacks.
check_context(s, expected, next) ==
    IF s.ctx = expected THEN [s EXCEPT !.at = next]
    ELSE IF expected \in s.known
         THEN [s EXCEPT !.ctx = expected, !.at = next]
         ELSE Exit(s, 1)

\* The status of (( expr )): 1 when the expression's value is 0.
ArithmeticStatus(value) == IF value = 0 THEN 1 ELSE 0

\* 206: INITIAL_CONTEXT=$(kubectl config current-context)
SaveContext ==
    /\ sh.at = "206"
    /\ sh' = [sh EXCEPT !.INITIAL_CONTEXT = sh.ctx, !.at = "226"]
    /\ UNCHANGED <<HandlerLocals, srv, inv, mem>>

\* 226: trap cleanup EXIT
Trap ==
    /\ sh.at = "226"
    /\ sh' = [sh EXCEPT !.trap = TRUE, !.at = "266"]
    /\ UNCHANGED <<HandlerLocals, srv, inv, mem>>

\* 266: check_context "kind-argocd-cluster"
Step1 ==
    /\ sh.at = "266"
    /\ sh' = check_context(sh, ArgoCluster, "269")
    /\ UNCHANGED <<HandlerLocals, srv, inv, mem>>

\* 269-273: the application is deleted when it exists.
DeleteApplication ==
    /\ sh.at = "269"
    /\ \E ok \in BOOLEAN :
           sh' = IF sh.appExists
                 THEN OrAbort([sh EXCEPT !.appExists = ~ok], ok, "277")
                 ELSE [sh EXCEPT !.at = "277"]
    /\ UNCHANGED <<HandlerLocals, srv, inv, mem>>

\* 277-296: kubectl apply of the application.
ApplyApplication ==
    /\ sh.at = "277"
    /\ \E ok \in BOOLEAN : sh' = OrAbort([sh EXCEPT !.appExists = ok], ok, "305")
    /\ UNCHANGED <<HandlerLocals, srv, inv, mem>>

\* 305-313: kubectl patch triggers the sync; the two status reads are
\* guarded by || echo "Unknown".
SyncApplication ==
    /\ sh.at = "305"
    /\ \E ok \in BOOLEAN : sh' = OrAbort(sh, ok, "322")
    /\ UNCHANGED <<HandlerLocals, srv, inv, mem>>

\* 322: check_context "kind-target-cluster"
Step3 ==
    /\ sh.at = "322"
    /\ sh' = check_context(sh, TargetCluster, "325")
    /\ UNCHANGED <<HandlerLocals, srv, inv, mem>>

\* 325, 244-246: wait_for_resource is called as a plain command.
WaitForResource ==
    /\ sh.at = "325"
    /\ sh' = [sh EXCEPT !.attempt = 0, !.wait = "polling", !.at = "249"]
    /\ UNCHANGED <<HandlerLocals, srv, inv, mem>>

\* 248-260: one test of the loop condition and what follows it.  While
\* attempt < max_attempts, kubectl get finds the resource from the poll at
\* which it first exists; otherwise sleep 2 and ((attempt++)), whose status
\* is that of the value before the increment, under set -e.  When the loop
\* has run out: the message, return 1, and set -e ends the script at the
\* call.
Poll ==
    /\ sh.at = "249"
    /\ LET polled == [sh EXCEPT !.polls = @ + 1]
       IN  sh' = IF sh.attempt >= max_attempts
                 THEN Exit([sh EXCEPT !.wait = "timeout", !.timeout = TRUE], 1)
                 ELSE IF polled.polls >= sh.appearsAt
                 THEN [polled EXCEPT !.wait = "found", !.at = "328"]
                 ELSE IF ArithmeticStatus(sh.attempt) # 0
                      THEN Exit([polled EXCEPT !.wait = "aborted"], 1)
                      ELSE [polled EXCEPT !.attempt = @ + 1]
    /\ UNCHANGED <<HandlerLocals, srv, inv, mem>>

\* 328-332: the UID is read; a failed read aborts, an empty one is exit 1.
GetUID ==
    /\ sh.at = "328"
    /\ \E uid \in {"failed", "empty", "uid"} :
           sh' = IF uid = "uid" THEN [sh EXCEPT !.at = "340"] ELSE Exit(sh, 1)
    /\ UNCHANGED <<HandlerLocals, srv, inv, mem>>

\* 340-391: the namespace is created when missing and the two roles are
\* applied.
CreateChildren ==
    /\ sh.at = "340"
    /\ \E ok \in BOOLEAN : sh' = OrAbort(sh, ok, "396")
    /\ UNCHANGED <<HandlerLocals, srv, inv, mem>>

\* 396-426: the closing messages; the script ends with status 0.
Complete ==
    /\ sh.at = "396"
    /\ sh' = Exit(sh, 0)
    /\ UNCHANGED <<HandlerLocals, srv, inv, mem>>

CrossNext ==
    \/ SaveContext
    \/ Trap
    \/ Step1
    \/ DeleteApplication
    \/ ApplyApplication
    \/ SyncApplication
    \/ Step3
    \/ WaitForResource
    \/ Poll
    \/ GetUID
    \/ CreateChildren
    \/ Complete

CrossSpec == CrossInit /\ [][CrossNext]_vars

---------------------------------------------------------------------------
\* The Argo CD image switcher (part_000), a bash script under set -e.  sh
\* holds the helm values of the self-management application, as lines of
\* key and value, what else of the environment the script depends on, the
\* script's variables and position, and what the run before this one did.

SwitchModes == {"default", "conversion-webhook-fix", "cluster-scoped-parents"}

\* 80-96: TARGET_IMAGE_TAG of a mode, "" for the chart's own image.
TargetImageTag(mode) ==
    CASE mode = "conversion-webhook-fix" -> "conversion-webhook-failure-isolation"
      [] mode = "cluster-scoped-parents" -> "cluster-scoped-parents"
      [] OTHER -> ""

ValuesLine(key, value) == [key |-> key, value |-> value]

\* The override written with no tag lines in it.
NewValues_NoTag(tag) ==
    IF tag = "" THEN <<>>
    ELSE <<ValuesLine("repository", "argocd"),
           ValuesLine("imagePullPolicy", "Never")>>

\* 131-151: NEW_VALUES, empty for the default image.
NewValues(tag) ==
    IF tag = "" THEN <<>>
    ELSE <<ValuesLine("repository", "argocd"),
           ValuesLine("tag", tag),
           ValuesLine("imagePullPolicy", "Never"),
           ValuesLine("repository", "argocd"),
           ValuesLine("tag", tag),
           ValuesLine("imagePullPolicy", "Never")>>

\* grep -q 'tag.*"<tag>"': some line has tag followed by the quoted tag.
GrepTag(values, tag) ==
    \E k \in DOMAIN values : values[k].key = "tag" /\ values[k].value = tag

\* 43-52: CURRENT_STATE from the values read.
CurrentState(values) ==
    IF GrepTag(values, "conversion-webhook-failure-isolation")
    THEN "conversion-webhook-fix"
    ELSE IF GrepTag(values, "cluster-scoped-parents")
         THEN "cluster-scoped-parents"
         ELSE "default"

\* The values the application may have before the script ever ran: none, a
\* pinned release, either custom image, or both tags after a hand edit.
SwitchValues ==
    {<<>>,
     <<ValuesLine("tag", "v2.9.3")>>,
     NewValues("conversion-webhook-failure-isolation"),
     NewValues("cluster-scoped-parents"),
     <<ValuesLine("tag", "cluster-scoped-parents"),
       ValuesLine("tag", "conversion-webhook-failure-isolation")>>}

NoSwitchRun == [patched |-> FALSE, target |-> "", status |-> 0]

\* The script about to run in an environment, before its arguments are
\* read.
SwitchStartOf(values, appExists, contextKnown, run, prev) ==
    [at |-> "8", run |-> run, values |-> values, appExists |-> appExists,
     contextKnown |-> contextKnown, NON_INTERACTIVE |-> FALSE,
     TARGET_MODE |-> "", CURRENT_STATE |-> "", confirm |-> FALSE,
     patched |-> FALSE, exited |-> FALSE, status |-> 0, prev |-> prev]

SwitchInit ==
    /\ NoInvocation
    /\ srv = Nil
    /\ inv = Nil
    /\ mem = Nil
    /\ sh \in {SwitchStartOf(v, a, c, 1, NoSwitchRun) :
                  v \in SwitchValues, a \in BOOLEAN, c \in BOOLEAN}

SwitchExit(s, status) == [s EXCEPT !.at = "exit", !.exited = TRUE, !.status = status]

\* 5-15, 29: the arguments are read (an unknown one is exit 1) and the
\* context is switched to the Argo CD cluster.
ParseArguments ==
    /\ sh.at = "8"
    /\ \E yes \in BOOLEAN, mode \in SwitchModes \cup {"", "unknown"} :
           sh' = IF mode = "unknown" \/ ~sh.contextKnown
                 THEN SwitchExit(sh, 1)
                 ELSE [sh EXCEPT !.NON_INTERACTIVE = yes, !.TARGET_MODE = mode,
                                 !.at = "32"]
    /\ UNCHANGED <<HandlerLocals, srv, inv, mem>>

\* 32-36: without the self-management application, exit 1.
CheckApplication ==
    /\ sh.at = "32"
    /\ sh' = IF sh.appExists THEN [sh EXCEPT !.at = "40"] ELSE SwitchExit(sh, 1)
    /\ UNCHANGED <<HandlerLocals, srv, inv, mem>>

\* 40-52: the values are read and the current mode is told from them.
DetectCurrentState ==
    /\ sh.at = "40"
    /\ sh' = [sh EXCEPT !.CURRENT_STATE = CurrentState(sh.values), !.at = "58"]
    /\ UNCHANGED <<HandlerLocals, srv, inv, mem>>

\* 58-77: with no mode given, the selection is read, or, with -y, exit 1.
DetermineTarget ==
    /\ sh.at = "58"
    /\ \E selection \in SwitchModes \cup {"invalid"} :
           sh' = IF sh.TARGET_MODE # "" THEN [sh EXCEPT !.at = "102"]
                 ELSE IF sh.NON_INTERACTIVE \/ selection = "invalid"
                      THEN SwitchExit(sh, 1)
                      ELSE [sh EXCEPT !.TARGET_MODE = selection, !.at = "102"]
    /\ UNCHANGED <<HandlerLocals, srv, inv, mem>>

\* 102-114: nothing to do when the current mode is the target; otherwise
\* the confirmation, unless -y.
CheckAndConfirm ==
    /\ sh.at = "102"
    /\ \E confirm \in BOOLEAN :
           sh' = IF sh.CURRENT_STATE = sh.TARGET_MODE THEN SwitchExit(sh, 0)
                 ELSE IF sh.NON_INTERACTIVE THEN [sh EXCEPT !.at = "117"]
                 ELSE IF confirm THEN [sh EXCEPT !.confirm = TRUE, !.at = "117"]
                 ELSE SwitchExit(sh, 0)
    /\ UNCHANGED <<HandlerLocals, srv, inv, mem>>

\* 117-128: a custom image must be present locally and load into kind.
LoadImage ==
    /\ sh.at = "117"
    /\ \E loaded \in BOOLEAN :
           sh' = IF TargetImageTag(sh.TARGET_MODE) = "" \/ loaded
                 THEN [sh EXCEPT !.at = "131"]
                 ELSE SwitchExit(sh, 1)
    /\ UNCHANGED <<HandlerLocals, srv, inv, mem>>

\* 131-169: the override is prepared and kubectl patch replaces the
\* application's values with it.
PatchApplication ==
    /\ sh.at = "131"
    /\ \E ok \in BOOLEAN :
           sh' = IF ok
                 THEN [sh EXCEPT !.values = NewValues(TargetImageTag(sh.TARGET_MODE)),
                                 !.patched = TRUE, !.at = "172"]
                 ELSE SwitchExit(sh, 1)
    /\ UNCHANGED <<HandlerLocals, srv, inv, mem>>

\* 172-261: the sync is watched and the images are reported, all guarded;
\* the closing kubectl get pods | grep ends the script when it fails.
MonitorAndVerify ==
    /\ sh.at = "172"
    /\ \E ok \in BOOLEAN : sh' = SwitchExit(sh, IF ok THEN 0 ELSE 1)
    /\ UNCHANGED <<HandlerLocals, srv, inv, mem>>

\* The script is run again on what the run before left.
SwitchAgain ==
    /\ sh.exited
    /\ sh.run < MaxRuns
    /\ sh' = SwitchStartOf(sh.values, sh.appExists, sh.contextKnown, sh.run + 1,
                           [patched |-> sh.patched, target |-> sh.TARGET_MODE,
                            status |-> sh.status])
    /\ UNCHANGED <<HandlerLocals, srv, inv, mem>>

SwitchNext ==
    \/ ParseArguments
    \/ CheckApplication
    \/ DetectCurrentState
    \/ DetermineTarget
    \/ CheckAndConfirm
    \/ LoadImage
    \/ PatchApplication
    \/ MonitorAndVerify
    \/ SwitchAgain

SwitchSpec == SwitchInit /\ [][SwitchNext]_vars

---------------------------------------------------------------------------
\* Reading JSON texts, for the properties below.

\* The string at key k of the object o; absent, null and "" read alike, as
\* they do for every decoder of an omitempty string.
StrAt(o, k) == IF k \in DOMAIN o /\ IsStr(o[k]) THEN o[k].str ELSE ""

\* The members of the object at key k of the object o (none if there is none).
ObjAt(o, k) == IF k \in DOMAIN o /\ IsObj(o[k]) THEN o[k].obj ELSE Empty

\* The same for the object a JSON text denotes.
MembersAt(t, k) == IF IsObj(t.val) THEN ObjAt(t.val.obj, k) ELSE Empty

\* The latest iteration has run and appended an entry; this is the entry.
Iterated == outcome # "none"
Emitted == outcome \in {"converted", "passthrough"}
LastEntry == convertedObjects[Len(convertedObjects)].Raw

\* The envelope the caller received, when it received one.
Answered == pc = "returned"
Succeeded == Answered /\ w.code = 200
ResponseMembers == MembersAt(w.body, "response")
ResponseObjects == ResponseMembers["convertedObjects"].arr

\* What the loop does with the element o on its own.
Alone(o) == LoopBody(o, req.DesiredAPIVersion, <<>>)
Kept(o) == Alone(o).outcome \in {"converted", "passthrough"}
EntryOf(o) == Alone(o).list[1]

\* The elements among the first n that are kept, and the place of the j-th
\* element's entry in the output.
KeptUpTo(n) == {j \in 1..n : Kept(req.Objects[j])}
Rank(j) == Cardinality(KeptUpTo(j))

\* The entries of the kept elements among the first n, in request order.
RECURSIVE KeptEntries(_)
KeptEntries(n) ==
    IF n = 0 THEN <<>>
    ELSE IF Kept(req.Objects[n])
         THEN Append(KeptEntries(n - 1), EntryOf(req.Objects[n]))
         ELSE KeptEntries(n - 1)

---------------------------------------------------------------------------
\* C1: every request whose body decodes into the envelope is answered with
\* HTTP 200, Content-Type application/json and result.status "Success".
\* The invocation that decoded a body with no request ends in a panic and
\* answers nothing.
C1_DecodedIsAnswered200 ==
    (pc \in {"returned", "panicked"} /\ review # Nil) =>
        /\ pc = "returned"
        /\ w.code = 200
        /\ w.contentType = "application/json"
        /\ StrAt(ObjAt(ResponseMembers, "result"), "status") = "Success"

\* C2: an element that declares v1 and parses as ExampleV1, with v2 desired,
\* is emitted with apiVersion v2, the source's field1 and field2 set to the
\* fixed default.
C2_V1ToV2Entry ==
    (/\ Iterated
     /\ objMeta.APIVersion = V1
     /\ req.DesiredAPIVersion = V2
     /\ ~UnmarshalExampleV1(obj.Raw).err) =>
        /\ outcome = "converted"
        /\ StrAt(LastEntry.val.obj, "apiVersion") = V2
        /\ StrAt(MembersAt(LastEntry, "spec"), "field1")
               = StrAt(MembersAt(obj.Raw, "spec"), "field1")
        /\ "field2" \in DOMAIN MembersAt(LastEntry, "spec")
        /\ MembersAt(LastEntry, "spec")["field2"] = JStr(DefaultField2)

C2_Witness ==
    /\ outcome = "converted"
    /\ obj = [Raw |-> ObjV1Rich]
    /\ MembersAt(LastEntry, "spec")["field2"] = JStr(DefaultField2)

\* C3: an element that declares v2 and parses as ExampleV2, with v1 desired,
\* is emitted with apiVersion v1, the source's field1 and no field2 key.
C3_V2ToV1Entry ==
    (/\ Iterated
     /\ objMeta.APIVersion = V2
     /\ req.DesiredAPIVersion = V1
     /\ ~UnmarshalExampleV2(obj.Raw).err) =>
        /\ outcome = "converted"
        /\ StrAt(LastEntry.val.obj, "apiVersion") = V1
        /\ StrAt(MembersAt(LastEntry, "spec"), "field1")
               = StrAt(MembersAt(obj.Raw, "spec"), "field1")
        /\ "field2" \notin DOMAIN MembersAt(LastEntry, "spec")

C3_Witness ==
    /\ outcome = "converted"
    /\ obj = [Raw |-> ObjV2]
    /\ StrAt(MembersAt(obj.Raw, "spec"), "field2") = "custom"
    /\ DOMAIN MembersAt(LastEntry, "spec") = {"field1"}

\* C4: in both directions the converted object has the kind, the metadata
\* and the status of the source object.  Both conversions write the kind
\* "Example" whatever the source's kind is.
C4_IdentityAndStatusKept ==
    outcome = "converted" =>
        /\ converted.TypeMeta.Kind = parsed.TypeMeta.Kind
        /\ converted.ObjectMeta = parsed.ObjectMeta
        /\ converted.Status = parsed.Status

---------------------------------------------------------------------------
\* The element does not parse as what it declares: its type metadata does
\* not parse, or it declares v1 or v2 and does not fit that version's type.
Malformed(raw) ==
    LET m == UnmarshalTypeMeta(raw)
    IN  \/ m.err
        \/ m.v.APIVersion = V1 /\ UnmarshalExampleV1(raw).err
        \/ m.v.APIVersion = V2 /\ UnmarshalExampleV2(raw).err

\* The element fails a parse the handler performs on it: the pre-parse, or
\* the full parse, which only a (v1, v2) or (v2, v1) pair leads to.
FailsParse(raw, want) ==
    LET m == UnmarshalTypeMeta(raw)
    IN  \/ m.err
        \/ IsV1ToV2(m.v, want) /\ UnmarshalExampleV1(raw).err
        \/ IsV2ToV1(m.v, want) /\ UnmarshalExampleV2(raw).err

\* The response is a success envelope holding the entries of every element
\* but the k-th, in the order of the request.
AllButOne(k) ==
    LET n == Len(req.Objects)
    IN  /\ w.code = 200
        /\ StrAt(ObjAt(ResponseMembers, "result"), "status") = "Success"
        /\ Len(ResponseObjects) = n - 1
        /\ \A j \in 1..(n - 1) :
               ResponseObjects[j] =
                   MarshalRawExtension(EntryOf(req.Objects[IF j < k THEN j ELSE j + 1]))

\* C6 as stated: whenever exactly one element of the batch is malformed, in
\* whatever way, the response holds the N-1 others in order, with 200 and
\* "Success".
C6_OneMalformedDropped ==
    (Answered /\ req # Nil) =>
        \A k \in 1..Len(req.Objects) :
            (\A j \in 1..Len(req.Objects) : Malformed(req.Objects[j].Raw) <=> j = k)
                => AllButOne(k)

\* C6 as amended: whenever exactly one element of the batch fails a parse
\* the handler performs on it, the response holds the N-1 others in order,
\* with 200 and "Success".
C6_OneFailedParseDropped ==
    (Answered /\ req # Nil) =>
        \A k \in 1..Len(req.Objects) :
            (\A j \in 1..Len(req.Objects) :
                 FailsParse(req.Objects[j].Raw, req.DesiredAPIVersion) <=> j = k)
                => AllButOne(k)

C6_Witness ==
    /\ Succeeded
    /\ Len(req.Objects) = 3
    /\ req.Objects[2] = [Raw |-> ObjV1BadSpec]
    /\ req.DesiredAPIVersion = V2
    /\ \A j \in {1, 3} : ~FailsParse(req.Objects[j].Raw, V2)
    /\ Len(ResponseObjects) = 2
    /\ ResponseObjects[1] # ResponseObjects[2]

\* C7: an element whose pair is neither (v1, v2) nor (v2, v1) appears in the
\* HTTP response as the bytes it had in the request.  The encoder compacts
\* and HTML-escapes every entry it writes.
C7_PassthroughBytes ==
    Succeeded =>
        \A j \in 1..Len(req.Objects) :
            Alone(req.Objects[j]).outcome = "passthrough"
                => ResponseObjects[Rank(j)] = req.Objects[j].Raw

\* C8: convertedObjects is the order-preserving image of a subsequence of
\* request.objects: the kept elements' entries, each once, in request order;
\* never longer than the input and as long exactly when nothing is dropped.
C8_OrderedSubsequence ==
    (pc \in {"range", "returned"} /\ req # Nil) =>
        LET n == i - 1
        IN  /\ convertedObjects = KeptEntries(n)
            /\ Len(convertedObjects) <= n
            /\ Len(convertedObjects) = n <=> KeptUpTo(n) = 1..n
            /\ Succeeded =>
                   /\ n = Len(req.Objects)
                   /\ Len(ResponseObjects) = Len(convertedObjects)
                   /\ \A j \in 1..Len(convertedObjects) :
                          ResponseObjects[j] = MarshalRawExtension(convertedObjects[j])

C8_Witness ==
    /\ Succeeded
    /\ Len(req.Objects) = 3
    /\ KeptUpTo(3) = {1, 3}
    /\ convertedObjects[1] # convertedObjects[2]
    /\ Alone(req.Objects[1]).outcome = "converted"
    /\ Alone(req.Objects[3]).outcome = "passthrough"

\* C9: a body that cannot be read or does not parse as the envelope is
\* answered with HTTP 400 and the error text, once; the loop is never
\* entered, nothing is converted or emitted and no envelope is written.
C9_BadEnvelope400 ==
    (request # Nil /\ (request.readErr \/ UnmarshalReview(request.body).err)) =>
        /\ pc \in {"readAll", "unmarshal", "returned"}
        /\ convertedObjects = <<>>
        /\ outcome = "none"
        /\ review = Nil
        /\ pc = "returned" =>
               /\ w.code = 400
               /\ DOMAIN w.body = {"error"}
               /\ w.writes = 1
        /\ pc # "returned" => w = NoResponse

C9_Witness ==
    /\ pc = "returned"
    /\ ~request.readErr
    /\ request.body = InvalidJSON
    /\ w.code = 400

\* C10: every invocation ends having written exactly one response, of status
\* 200, 400 or 500, and never in a panic.  The invocation that decoded a
\* body with no request panics and writes nothing.
C10_OneResponseNoPanic ==
    /\ pc # "panicked"
    /\ pc = "returned" => (w.writes = 1 /\ w.code \in {200, 400, 500})

---------------------------------------------------------------------------
\* The members of the envelope the caller sent and of the one it received.
RequestMembers == MembersAt(request.body, "request")
EnvelopeMembers == IF IsObj(w.body.val) THEN w.body.val.obj ELSE Empty

\* C11: in every success response, response.uid is the uid of the request
\* it answers, the empty uid included.
C11_UIDEchoed ==
    Succeeded =>
        /\ "uid" \in DOMAIN ResponseMembers
        /\ ResponseMembers["uid"] = JStr(StrAt(RequestMembers, "uid"))
        /\ ResponseMembers["uid"] = JStr(req.UID)

C11_Witness ==
    /\ Succeeded
    /\ "uid" \in DOMAIN RequestMembers
    /\ RequestMembers["uid"] = JStr("abc")
    /\ ResponseMembers["uid"] = JStr("abc")

C11_WitnessEmptyUID ==
    /\ Succeeded
    /\ "uid" \in DOMAIN RequestMembers
    /\ RequestMembers["uid"] = JStr("")
    /\ ResponseMembers["uid"] = JStr("")

\* C12: every success response body has a response member and no request
\* member, whatever the request held.
C12_RequestNotEchoed ==
    Succeeded =>
        /\ "response" \in DOMAIN EnvelopeMembers
        /\ "request" \notin DOMAIN EnvelopeMembers
        /\ review.Request = Nil

C12_Witness ==
    /\ Succeeded
    /\ Len(req.Objects) = MaxObjects
    /\ "request" \in DOMAIN (request.body).val.obj
    /\ DOMAIN EnvelopeMembers = {"apiVersion", "kind", "response"}

\* The request of the scenario and the converted object it expects.
ScenarioBody == ReviewBody("abc", V2, <<ObjV1>>)
ScenarioObject ==
    JObj([apiVersion |-> JStr(V2), kind |-> JStr("Example"),
          metadata |-> JObj([name |-> JStr("x")]),
          spec |-> JObj([field1 |-> JStr("hello"),
                         field2 |-> JStr(DefaultField2)])])

\* C13: the scenario request is answered with uid "abc", status "Success"
\* and exactly one converted object, equal to ScenarioObject with no key
\* added to it or to its metadata.  The encoder writes the zero
\* creationTimestamp of the metadata as "creationTimestamp": null.
C13_ScenarioResponse ==
    (Succeeded /\ request.body = ScenarioBody) =>
        /\ ResponseMembers["uid"] = JStr("abc")
        /\ StrAt(ObjAt(ResponseMembers, "result"), "status") = "Success"
        /\ Len(ResponseObjects) = 1
        /\ ResponseObjects[1].val = ScenarioObject

---------------------------------------------------------------------------
\* The process is past the loading of the key pair.
PastLoad == srv.pc \notin {"getenv", "defaults", "load"}

\* C14 as stated: once the server is serving, a request to /health can
\* always be served, and every one, of any method and after /convert
\* requests that succeeded, were rejected or panicked, is answered with 200
\* and the body "OK".  The answer to a HEAD request has no body.
C14_HealthAlways200OK ==
    /\ srv.listening => (srv.pc = "serving" /\ ENABLED Health)
    /\ srv.health # Nil =>
          /\ srv.health.w.code = 200
          /\ srv.health.w.body = [text |-> "OK"]

\* C14 as amended: once the server is serving, a request to /health can
\* always be served and every one, after any /convert requests, is answered
\* with 200; the body is "OK" for every method but HEAD, and there is no
\* body for HEAD.
C14_HealthAlways200 ==
    /\ srv.listening => (srv.pc = "serving" /\ ENABLED Health)
    /\ srv.health # Nil =>
          /\ srv.health.w.code = 200
          /\ srv.health.method # "HEAD" => srv.health.w.body = [text |-> "OK"]
          /\ srv.health.method = "HEAD" => srv.health.w.body = Nil

C14_Witness ==
    /\ srv.health # Nil
    /\ srv.health.method = "POST"
    /\ srv.health.after = "panicked"
    /\ srv.health.w.code = 200
    /\ srv.last = "rejected"
    /\ pc = "range"

C14_WitnessHead ==
    /\ srv.health # Nil
    /\ srv.health.method = "HEAD"
    /\ srv.health.after = "success"
    /\ srv.health.w.code = 200

\* C15: a process whose key pair did not load has exited with a fatal
\* error: it has registered no handler, opened no listener and served no
\* request to /convert or /health.
C15_NoKeyPairNoServer ==
    (PastLoad /\ ~KeyPairLoads(srv.files, srv.certPath, srv.keyPath)) =>
        /\ srv.pc = "exited"
        /\ srv.exited
        /\ srv.status = 1
        /\ srv.cert = Nil
        /\ srv.handlers = {}
        /\ ~srv.listening
        /\ srv.health = Nil
        /\ srv.last = "none"
        /\ pc = "idle"

C15_Witness ==
    /\ srv.pc = "exited"
    /\ srv.environ["TLS_CERT_FILE"] = SetTo(CustomCertPath)
    /\ srv.files = {DefaultCertPath, DefaultKeyPath}
    /\ srv.handlers = {}
    /\ srv.status = 1

\* C18 as stated: the certificate path is the value of TLS_CERT_FILE when
\* the variable is set and the default otherwise, the same for the key
\* path and TLS_PRIVATE_KEY_FILE, and the address is :8443.  A variable set
\* to the empty string gives the default path, not its value.
C18_PathsFromEnvWhenSet ==
    /\ PastLoad \/ srv.pc = "load" =>
          /\ srv.certPath = IF srv.environ["TLS_CERT_FILE"].set
                            THEN srv.environ["TLS_CERT_FILE"].value
                            ELSE DefaultCertPath
          /\ srv.keyPath = IF srv.environ["TLS_PRIVATE_KEY_FILE"].set
                           THEN srv.environ["TLS_PRIVATE_KEY_FILE"].value
                           ELSE DefaultKeyPath
    /\ srv.listening => srv.addr = ":8443"

\* The variable is set to a value that is not empty.
SetNonEmpty(v) == v.set /\ v.value # ""

\* C18 as amended: the certificate path is the value of TLS_CERT_FILE when
\* the variable is set to a non-empty value and /etc/certs/tls.crt when it
\* is unset or empty; the key path likewise from TLS_PRIVATE_KEY_FILE and
\* /etc/certs/tls.key, each whatever the other is; the address is :8443.
C18_PathsFromEnvWhenNonEmpty ==
    /\ PastLoad \/ srv.pc = "load" =>
          /\ srv.certPath = IF SetNonEmpty(srv.environ["TLS_CERT_FILE"])
                            THEN srv.environ["TLS_CERT_FILE"].value
                            ELSE "/etc/certs/tls.crt"
          /\ srv.keyPath = IF SetNonEmpty(srv.environ["TLS_PRIVATE_KEY_FILE"])
                           THEN srv.environ["TLS_PRIVATE_KEY_FILE"].value
                           ELSE "/etc/certs/tls.key"
    /\ srv.cert # Nil =>
          srv.cert = [certPath |-> srv.certPath, keyPath |-> srv.keyPath]
    /\ srv.pc \in {"handle", "listen", "serving"} => srv.addr = ":8443"
    /\ srv.listening => srv.addr = ":8443"

C18_Witness ==
    /\ srv.listening
    /\ srv.environ["TLS_CERT_FILE"] = SetTo(CustomCertPath)
    /\ srv.environ["TLS_PRIVATE_KEY_FILE"] = Unset
    /\ srv.cert = [certPath |-> CustomCertPath, keyPath |-> DefaultKeyPath]

C18_WitnessEmpty ==
    /\ srv.listening
    /\ srv.environ["TLS_CERT_FILE"] = SetTo("")
    /\ srv.environ["TLS_PRIVATE_KEY_FILE"] = SetTo(CustomKeyPath)
    /\ srv.cert = [certPath |-> DefaultCertPath, keyPath |-> CustomKeyPath]

---------------------------------------------------------------------------
\* The response to the /convert request as the client gets it.
Sent == OnTheWire(request.method, w)

\* C17 as stated: the status and the body of the /convert response are a
\* function of the request body alone: whatever the method, the headers and
\* the requests served before, the request with the body b is answered as
\* HandleConvert(b) answers.  The answer to a HEAD request has no body.
C17_ResponseFromBodyAlone ==
    (pc \in {"returned", "panicked"} /\ ~request.readErr) =>
        /\ pc = HandleConvert(request.body).pc
        /\ Sent = HandleConvert(request.body).w

\* C17 as amended: whatever the headers and the requests served before,
\* the request with the body b is answered with the status of
\* HandleConvert(b), and with its body for every method but HEAD; the
\* answer to a HEAD request has no body.
C17_ResponseFromBodyAndHead ==
    (pc \in {"returned", "panicked"} /\ ~request.readErr) =>
        /\ pc = HandleConvert(request.body).pc
        /\ w = HandleConvert(request.body).w
        /\ Sent.code = HandleConvert(request.body).w.code
        /\ request.method # "HEAD" => Sent = HandleConvert(request.body).w
        /\ request.method = "HEAD" => Sent.body = Nil

C17_Witness ==
    /\ Succeeded
    /\ request.method = "GET"
    /\ request.contentType = ""
    /\ srv.last = "panicked"
    /\ Len(ResponseObjects) = 2

C17_WitnessHead ==
    /\ Succeeded
    /\ request.method = "HEAD"
    /\ srv.last = "success"
    /\ Sent.body = Nil
    /\ Sent.code = 200

---------------------------------------------------------------------------
\* How the request r ends when it is handled alone.
Alone400 == [pc |-> "returned", w |-> HttpError(NoResponse, "unexpected EOF", 400)]
HandledAlone(r) == IF r.readErr THEN Alone400 ELSE HandleConvert(r.body)

\* C16: in every interleaving of concurrent invocations, each invocation
\* ends with the response its request gets when handled alone, and while
\* it runs its list is the one its own request gives.
C16_AsIfAlone ==
    \A k \in Invocations :
        /\ inv[k].pc \in {"returned", "panicked"} =>
               /\ inv[k].pc = HandledAlone(inv[k].request).pc
               /\ inv[k].w = HandledAlone(inv[k].request).w
        /\ (inv[k].pc = "range" /\ inv[k].req # Nil) =>
               inv[k].convertedObjects =
                   ConvertedUpTo(inv[k].req.Objects, inv[k].req.DesiredAPIVersion,
                                 inv[k].i - 1)

C16_Witness ==
    /\ inv[1].pc = "returned"
    /\ inv[1].w.code = 200
    /\ Len(inv[1].convertedObjects) = 2
    /\ inv[2].pc = "range"
    /\ inv[2].req # Nil
    /\ inv[2].i = 2
    /\ Len(inv[2].convertedObjects) = 1
    /\ inv[2].request # inv[1].request

---------------------------------------------------------------------------
\* The script has ended, one way or the other.
Ended == sh.result # "running"

\* Everything setup.sh creates exists.
SetUp(env) ==
    {ArgoCluster, TargetCluster, ArgoNamespace, ArgoRelease, WebhookNamespace,
     ManagerAccount, ManagerBinding} \subseteq env

\* C19: setup.sh run again on an environment that a completed run set up
\* completes successfully and leaves the environment as it was.  The second
\* run ends at line 12: kind create cluster fails on the cluster that
\* exists, and set -e ends the script.
C19_SetupIdempotent ==
    (sh.run > 1 /\ sh.prev = "completed" /\ SetUp(sh.before) /\ Ended) =>
        /\ sh.result = "completed"
        /\ sh.status = 0
        /\ sh.env = sh.before

\* The environment the break script leaves: the webhook application and
\* its service gone, the CRD naming the webhook, the clusters up.
Broken(env) ==
    /\ {ArgoCluster, TargetCluster, BrokenWebhookCRD} \subseteq env
    /\ WebhookApp \notin env
    /\ WebhookService \notin env
    /\ ConversionFails(env)

\* C20: the break script run on an environment that is broken already
\* (by an earlier run or otherwise) runs to completion, never aborting, and
\* leaves the environment as it was, broken.
C20_BreakIdempotent ==
    Broken(sh.before) =>
        /\ sh.result # "aborted"
        /\ sh.env = sh.before
        /\ Broken(sh.env)
        /\ Ended => (sh.result = "completed" /\ sh.status = 0)

C20_Witness ==
    /\ sh.run = 2
    /\ sh.prev = "completed"
    /\ sh.result = "completed"
    /\ Broken(sh.before)
    /\ sh.env = sh.before
    /\ ArgoAPI \notin sh.env

---------------------------------------------------------------------------
\* The list s without its k-th element.
Without(s, k) == [j \in 1..(Len(s) - 1) |-> IF j < k THEN s[j] ELSE s[j + 1]]

\* The response's entries are the encodings of the list.
ResponseIs(list) ==
    /\ Len(ResponseObjects) = Len(list)
    /\ \A j \in 1..Len(list) : ResponseObjects[j] = MarshalRawExtension(list[j])

\* C21: an element that fails the pre-parse or the full parse is dropped
\* alone and the loop goes on: the entries of the batch are the entries of
\* the batch without that element, those of the elements after it too.
\* (No element fails at json.Marshal(converted): what a decode produced
\* always encodes.)
C21_FailureDropsOnlyThatObject ==
    Succeeded =>
        /\ i = Len(req.Objects) + 1
        /\ \A k \in 1..Len(req.Objects) :
               FailsParse(req.Objects[k].Raw, req.DesiredAPIVersion) =>
                   LET rest == Without(req.Objects, k)
                       alone == ConvertedUpTo(rest, req.DesiredAPIVersion, Len(rest))
                   IN  /\ convertedObjects = alone
                       /\ ResponseIs(alone)

C21_Witness ==
    /\ Succeeded
    /\ Len(req.Objects) = 3
    /\ req.DesiredAPIVersion = V1
    /\ req.Objects[1] = [Raw |-> ObjV2BadSpec]
    /\ req.Objects[2] = [Raw |-> ObjV2]
    /\ req.Objects[3] = [Raw |-> ObjV1Rich]
    /\ Len(ResponseObjects) = 2

C21_WitnessPreParse ==
    /\ Succeeded
    /\ Len(req.Objects) = 3
    /\ req.Objects[2] = [Raw |-> ObjScalar]
    /\ Len(ResponseObjects) = 2

\* C22: the path of an element is decided from its pre-parsed apiVersion
\* and the desired version alone, before any full parse.  An element on the
\* passthrough path is never parsed as ExampleV1 or ExampleV2 and is
\* appended as it came, whether or not its body fits a schema; on a (v1,
\* v2) or (v2, v1) pair it is parsed, and dropped when the parse fails.
C22_PathFromTypeMetaOnly ==
    Iterated =>
        LET m == UnmarshalTypeMeta(obj.Raw)
            want == req.DesiredAPIVersion
            convertible == IsV1ToV2(m.v, want) \/ IsV2ToV1(m.v, want)
        IN  /\ outcome = "metaError" <=> m.err
            /\ ~m.err =>
                  /\ objMeta = m.v
                  /\ outcome = "v1Error" => IsV1ToV2(m.v, want)
                  /\ outcome = "v2Error" => IsV2ToV1(m.v, want)
                  /\ outcome = "converted" =>
                         converted.TypeMeta.APIVersion = want
                  /\ outcome = "passthrough" <=> ~convertible
                  /\ convertible =>
                         (outcome = "converted" <=> ~FailsParse(obj.Raw, want))
            /\ outcome = "passthrough" =>
                  /\ parsed = Nil
                  /\ converted = Nil
                  /\ convertedObjects[Len(convertedObjects)] = obj

C22_Witness ==
    /\ outcome = "passthrough"
    /\ obj = [Raw |-> ObjV1BadSpec]
    /\ req.DesiredAPIVersion = V1
    /\ Malformed(obj.Raw)
    /\ LastEntry = ObjV1BadSpec

C22_WitnessDropped ==
    /\ outcome = "v1Error"
    /\ obj = [Raw |-> ObjV1BadSpec]
    /\ req.DesiredAPIVersion = V2

\* C24: in every success response each entry either has the desired
\* apiVersion and the kind "Example" (a converted element) or is the input
\* object, as a JSON value, of an element whose pair is neither (v1, v2)
\* nor (v2, v1); an entry of another apiVersion is a passed-through input.
C24_ConvertedOrPassedThrough ==
    Succeeded =>
        \A k \in KeptUpTo(Len(req.Objects)) :
            LET e == ResponseObjects[Rank(k)].val
                how == Alone(req.Objects[k]).outcome
            IN  /\ IsObj(e)
                /\ how = "converted" =>
                      /\ StrAt(e.obj, "apiVersion") = req.DesiredAPIVersion
                      /\ StrAt(e.obj, "kind") = "Example"
                /\ how = "passthrough" => e = req.Objects[k].Raw.val
                /\ StrAt(e.obj, "apiVersion") # req.DesiredAPIVersion =>
                      (how = "passthrough" /\ e = req.Objects[k].Raw.val)

C24_Witness ==
    /\ Succeeded
    /\ Len(req.Objects) = 3
    /\ req.DesiredAPIVersion = V1
    /\ req.Objects[1] = [Raw |-> ObjV2Rich]
    /\ req.Objects[2] = [Raw |-> ObjOther]
    /\ req.Objects[3] = [Raw |-> ObjV1]
    /\ Len(ResponseObjects) = 3
    /\ StrAt(ResponseObjects[1].val.obj, "apiVersion") = V1
    /\ StrAt(ResponseObjects[2].val.obj, "apiVersion") = "apps/v1"

\* The keys the Go types declare.
ObjectKeys == {"apiVersion", "kind", "metadata", "spec", "status"}
MetadataKeys == {"name", "namespace", "labels", "creationTimestamp"}
SpecKeys(version) == IF version = V2 THEN {"field1", "field2"} ELSE {"field1"}

\* C25: a converted entry holds only keys of the target type: a key of the
\* source that the source's type does not declare is not in the output,
\* and a v1 source with a spec.field2 of its own still gets the field2
\* "default-v2-value".
C25_OnlyTargetSchemaFields ==
    outcome = "converted" =>
        LET out == LastEntry.val.obj
        IN  /\ DOMAIN out \subseteq ObjectKeys
            /\ DOMAIN ObjAt(out, "metadata") \subseteq MetadataKeys
            /\ DOMAIN ObjAt(out, "spec") \subseteq SpecKeys(req.DesiredAPIVersion)
            /\ objMeta.APIVersion = V1 =>
                   StrAt(ObjAt(out, "spec"), "field2") = DefaultField2

C25_Witness ==
    /\ outcome = "converted"
    /\ obj = [Raw |-> ObjV1Rich]
    /\ "extra" \in DOMAIN obj.Raw.val.obj
    /\ "finalizer" \in DOMAIN MembersAt(obj.Raw, "metadata")
    /\ StrAt(MembersAt(obj.Raw, "spec"), "field2") = "mine"
    /\ StrAt(MembersAt(LastEntry, "spec"), "field2") = DefaultField2
    /\ "extra" \notin DOMAIN LastEntry.val.obj

---------------------------------------------------------------------------
\* The struct at b is what a conversion made of the struct at a.
ConvertedFrom(b, a) == mem.origin[b] = [how |-> "converted", of |-> a]
CopiedFrom(b, a) == mem.origin[b] = [how |-> "copied", of |-> a]

\* The latest operation wrote to a struct or to a map of it.
Mutated == mem.last.op \in {"setLabel", "setName", "setStatus"}

\* C23: the result of a conversion shares no mutable state with its
\* argument: a write to the metadata or the status of the one leaves the
\* value of the other as it was.  The conversions copy ObjectMeta and
\* Status by assignment, so the labels map and a status map are shared.
C23_ConversionSharesNothing ==
    Mutated =>
        \A b \in DOMAIN mem.structs :
            (ConvertedFrom(b, mem.last.arg) \/ ConvertedFrom(mem.last.arg, b)) =>
                Deref(mem, b) = mem.last.before[b]

\* C30: DeepCopyObject on nil gives nil; on a struct it gives a new struct
\* of equal TypeMeta, metadata, spec and status and leaves the receiver as
\* it was; and a write to the copy's metadata leaves the receiver's
\* metadata as it was.
C30_DeepCopyObject ==
    /\ mem.last.op = "copy" =>
          LET a == mem.last.arg
              r == mem.last.res
          IN  /\ a = 0 => (r = 0 /\ Snapshot(mem) = mem.last.before)
              /\ a # 0 =>
                    /\ r = Len(mem.structs)
                    /\ r \notin DOMAIN mem.last.before
                    /\ Deref(mem, r) = mem.last.before[a]
                    /\ \A b \in DOMAIN mem.last.before :
                           Deref(mem, b) = mem.last.before[b]
    /\ mem.last.op \in {"setLabel", "setName"} =>
          \A b \in DOMAIN mem.structs :
              CopiedFrom(mem.last.arg, b) =>
                  Deref(mem, b).ObjectMeta = mem.last.before[b].ObjectMeta

C30_Witness ==
    /\ mem.last.op = "setLabel"
    /\ CopiedFrom(mem.last.arg, 1)
    /\ Deref(mem, 1).ObjectMeta.Labels = [app |-> "demo"]
    /\ Deref(mem, mem.last.arg).ObjectMeta.Labels = [app |-> "changed"]
    /\ IsV2Struct(mem.structs[1])

C30_WitnessNil ==
    /\ mem.last.op = "copy"
    /\ mem.last.arg = 0
    /\ mem.last.res = 0

---------------------------------------------------------------------------
\* C26: for a v2 object x, convertV1ToV2(convertV2ToV1(x)) has x's
\* metadata, status and field1 and field2 = "default-v2-value", it equals
\* x exactly when x's field2 is the default, and a second round trip
\* changes nothing further.
C26_RoundTripV2 ==
    (outcome = "converted" /\ objMeta.APIVersion = V2) =>
        LET x == parsed
            once == convertV1ToV2(converted)
            twice == convertV1ToV2(convertV2ToV1(once))
        IN  /\ once.ObjectMeta = x.ObjectMeta
            /\ once.Status = x.Status
            /\ once.Spec.Field1 = x.Spec.Field1
            /\ once.Spec.Field2 = DefaultField2
            /\ (once = x) <=> (x.Spec.Field2 = DefaultField2)
            /\ twice = once

---------------------------------------------------------------------------
\* C27: wait_for_resource returns 0 at the first poll that finds the
\* resource, whichever of the 30 polls that is, and only after 30 failed
\* polls prints the timeout message and returns 1.  Under set -e the
\* script ends at ((attempt++)) after the first failed poll.
C27_WaitForResource ==
    /\ sh.wait # "aborted"
    /\ sh.wait = "found" => sh.polls = sh.appearsAt
    /\ sh.wait = "timeout" =>
          (sh.polls = max_attempts /\ sh.appearsAt > max_attempts /\ sh.timeout)
    /\ (sh.exited /\ sh.wait # "none" /\ sh.appearsAt <= max_attempts) =>
          sh.wait = "found"

\* C28: once the EXIT trap is installed, however the script ends, the
\* current context it leaves is the one it started with.
C28_ContextRestored ==
    (sh.exited /\ sh.trap) => sh.ctx = sh.INITIAL_CONTEXT

C28_Witness ==
    /\ sh.exited
    /\ sh.trap
    /\ sh.status = 1
    /\ sh.wait = "found"
    /\ sh.INITIAL_CONTEXT = OtherContext
    /\ sh.ctxAtExit = TargetCluster
    /\ sh.ctx = OtherContext

C28_WitnessCompleted ==
    /\ sh.exited
    /\ sh.status = 0
    /\ sh.ctxAtExit = TargetCluster
    /\ sh.ctx = ArgoCluster

---------------------------------------------------------------------------
C29_WitnessPatched ==
    /\ sh.patched
    /\ ~sh.NON_INTERACTIVE
    /\ sh.confirm
    /\ sh.CURRENT_STATE = "conversion-webhook-fix"
    /\ sh.TARGET_MODE = "default"
    /\ sh.values = <<>>
====
